---- MODULE Spec2Model ----
(***************************************************************************)
(* Model of the NetEase cloud-music search plugin: the cookie parser and   *)
(* the process-wide pyncm session state (ncm_api.py), the catalog search   *)
(* adapter (ncm_api.py), the chat-key parser (utils.py), the two           *)
(* agent-facing sandbox methods (__init__.py), the card signing request    *)
(* (card_api.py) and the song-list image compositor (image_gen.py).        *)
(*                                                                         *)
(* A Python str is modelled as a sequence of one-character strings, so     *)
(* that strip, replace, split and partition are computed character by      *)
(* character.  A Python dict is modelled as a function.                    *)
(***************************************************************************)
EXTENDS Integers, Sequences, FiniteSets, TLC

VARIABLES
    session_state,    \* ncm_api._session_state: [initialized, last_cookie]
    current_session,  \* the pyncm current session: which Session object, and its cookies
    call,             \* the last call made on the session module, and what it did
    pc,               \* "start" / "done" for the one-shot function harnesses;
                      \* for a coroutine, where the call in flight is suspended
    cookie_string,    \* argument of parse_cookie_string
    cookies,          \* its result
    chat_key,         \* argument of parse_chat_key
    chat_ret,         \* its result: the returned tuple or the ValueError raised
    search_result,    \* what cloudsearch.GetSearchResult answers
    max_results,      \* argument of search_songs_from_ncm
    search_ret,       \* its result: the returned list or the exception raised
    pyncm_ready,      \* __init__._pyncm_ready, set once at plugin load
    request,          \* the last sandbox-method call and what its collaborators did
    outcome,          \* how that call ended: a returned message or a raised exception
    sent,             \* the host transport calls that call made, in order
    card_call,        \* arguments of get_signed_netease_card and what the card API does
    card_ret,         \* its result: the payload returned, or the exception raised
    image_call,       \* arguments of generate_song_list_image and what its collaborators do
    image_ret         \* its result: the canvas and what was drawn on it

session_vars == <<session_state, current_session, call>>
cookie_vars == <<cookie_string, cookies>>
chat_vars == <<chat_key, chat_ret>>
search_vars == <<search_result, max_results, search_ret>>

plugin_vars == <<pyncm_ready, request, outcome, sent>>
card_vars == <<card_call, card_ret>>
image_vars == <<image_call, image_ret>>
ext_vars == <<card_vars, image_vars>>
plugin_rest == <<session_state, call, cookie_vars, chat_vars, search_result, search_ret,
                 ext_vars>>

vars == <<session_vars, cookie_vars, chat_vars, search_vars, plugin_vars, ext_vars, pc>>

(***************************************************************************)
(* Characters and Python str primitives                                    *)
(***************************************************************************)
NL == "\n"
CR == "\r"
SP == " "
SEMI == ";"
EQ == "="
\* U+00A0, the no-break space: whitespace for str.strip()
NBSP == " "

\* The characters Python counts as whitespace (str.isspace, and what
\* str.strip() removes).  A character up to U+00FF is written as itself, a
\* character beyond, which a string of this module cannot hold, is named by
\* its code point
PyWhitespace ==
    { "\t", "\n", "", "\f", "\r", "", "", "",
      "", " ", "", " ", "U+1680", "U+2000", "U+2001", "U+2002",
      "U+2003", "U+2004", "U+2005", "U+2006", "U+2007", "U+2008", "U+2009", "U+200A",
      "U+2028", "U+2029", "U+202F", "U+205F", "U+3000" }

\* str.isspace() for one character
IsSpace(c) == c \in PyWhitespace

\* str.lstrip()
RECURSIVE LStrip(_)
LStrip(s) == IF s # <<>> /\ IsSpace(Head(s)) THEN LStrip(Tail(s)) ELSE s

\* str.rstrip()
RECURSIVE RStrip(_)
RStrip(s) ==
    IF s # <<>> /\ IsSpace(s[Len(s)]) THEN RStrip(SubSeq(s, 1, Len(s) - 1)) ELSE s

\* str.strip()
Strip(s) == RStrip(LStrip(s))

\* "".join(ts)
RECURSIVE Concat(_)
Concat(ts) == IF ts = <<>> THEN <<>> ELSE Head(ts) \o Concat(Tail(ts))

\* `not s or not s.strip()`
IsBlank(s) == s = <<>> \/ Strip(s) = <<>>

\* str.replace(old, new) for a one-character old
RECURSIVE Replace(_, _, _)
Replace(s, old, new) ==
    IF s = <<>> THEN <<>>
    ELSE (IF Head(s) = old THEN new ELSE <<Head(s)>>) \o Replace(Tail(s), old, new)

\* `c in s`
Contains(s, c) == \E i \in 1..Len(s) : s[i] = c

\* index of the first occurrence of c in s (0 when there is none)
RECURSIVE Find(_, _)
Find(s, c) ==
    IF s = <<>> THEN 0
    ELSE IF Head(s) = c THEN 1
    ELSE LET r == Find(Tail(s), c) IN IF r = 0 THEN 0 ELSE r + 1

\* str.split(sep): the list of segments, always at least one
RECURSIVE Split(_, _)
Split(s, sep) ==
    LET p == Find(s, sep) IN
    IF p = 0 THEN <<s>>
    ELSE <<SubSeq(s, 1, p - 1)>> \o Split(SubSeq(s, p + 1, Len(s)), sep)

\* str.split(sep, 1): split at the first sep only
Split1(s, sep) ==
    LET p == Find(s, sep) IN
    IF p = 0 THEN <<s>>
    ELSE <<SubSeq(s, 1, p - 1), SubSeq(s, p + 1, Len(s))>>

\* str.partition(sep): <<before, after>> around the first sep
Partition(s, sep) ==
    LET p == Find(s, sep) IN
    IF p = 0 THEN <<s, <<>>>>
    ELSE <<SubSeq(s, 1, p - 1), SubSeq(s, p + 1, Len(s))>>

\* every sequence of at most n elements of alphabet
StringsUpTo(alphabet, n) == UNION {[1..k -> alphabet] : k \in 0..n}

\* d[k] = v on a dict
DictSet(d, k, v) == (k :> v) @@ d

EmptyDict == <<>>

(***************************************************************************)
(* ncm_api.parse_cookie_string                                             *)
(***************************************************************************)
\* line 37 without the newline replacement
NormalizeCookieString_NoNewline(s) == Replace(s, CR, <<>>)

\* line 37: newlines become "; ", carriage returns are deleted
NormalizeCookieString(s) == Replace(Replace(s, NL, <<SEMI, SP>>), CR, <<>>)

\* lines 39-43: the loop body for one item
CookieItem(d, raw) ==
    LET item == Strip(raw) IN
    IF Contains(item, EQ)
    THEN LET kv == Partition(item, EQ) IN DictSet(d, Strip(kv[1]), Strip(kv[2]))
    ELSE d

RECURSIVE CookieLoop(_, _)
CookieLoop(d, items) ==
    IF items = <<>> THEN d ELSE CookieLoop(CookieItem(d, Head(items)), Tail(items))

parse_cookie_string(s) ==
    IF IsBlank(s) THEN EmptyDict
    ELSE CookieLoop(EmptyDict, Split(NormalizeCookieString(s), SEMI))

(***************************************************************************)
(* utils.parse_chat_key                                                    *)
(***************************************************************************)
HYPHEN == "-"
UNDERSCORE == "_"
GROUP == <<"g", "r", "o", "u", "p">>
PRIVATE == <<"p", "r", "i", "v", "a", "t", "e">>

\* The decimal digits of Unicode, zero to nine of each script: the
\* characters int() reads as digits
DecimalRows ==
    << <<"0", "1", "2", "3", "4", "5", "6", "7", "8", "9">>,
       <<"U+0660", "U+0661", "U+0662", "U+0663", "U+0664", "U+0665", "U+0666", "U+0667", "U+0668", "U+0669">>,
       <<"U+06F0", "U+06F1", "U+06F2", "U+06F3", "U+06F4", "U+06F5", "U+06F6", "U+06F7", "U+06F8", "U+06F9">>,
       <<"U+07C0", "U+07C1", "U+07C2", "U+07C3", "U+07C4", "U+07C5", "U+07C6", "U+07C7", "U+07C8", "U+07C9">>,
       <<"U+0966", "U+0967", "U+0968", "U+0969", "U+096A", "U+096B", "U+096C", "U+096D", "U+096E", "U+096F">>,
       <<"U+09E6", "U+09E7", "U+09E8", "U+09E9", "U+09EA", "U+09EB", "U+09EC", "U+09ED", "U+09EE", "U+09EF">>,
       <<"U+0A66", "U+0A67", "U+0A68", "U+0A69", "U+0A6A", "U+0A6B", "U+0A6C", "U+0A6D", "U+0A6E", "U+0A6F">>,
       <<"U+0AE6", "U+0AE7", "U+0AE8", "U+0AE9", "U+0AEA", "U+0AEB", "U+0AEC", "U+0AED", "U+0AEE", "U+0AEF">>,
       <<"U+0B66", "U+0B67", "U+0B68", "U+0B69", "U+0B6A", "U+0B6B", "U+0B6C", "U+0B6D", "U+0B6E", "U+0B6F">>,
       <<"U+0BE6", "U+0BE7", "U+0BE8", "U+0BE9", "U+0BEA", "U+0BEB", "U+0BEC", "U+0BED", "U+0BEE", "U+0BEF">>,
       <<"U+0C66", "U+0C67", "U+0C68", "U+0C69", "U+0C6A", "U+0C6B", "U+0C6C", "U+0C6D", "U+0C6E", "U+0C6F">>,
       <<"U+0CE6", "U+0CE7", "U+0CE8", "U+0CE9", "U+0CEA", "U+0CEB", "U+0CEC", "U+0CED", "U+0CEE", "U+0CEF">>,
       <<"U+0D66", "U+0D67", "U+0D68", "U+0D69", "U+0D6A", "U+0D6B", "U+0D6C", "U+0D6D", "U+0D6E", "U+0D6F">>,
       <<"U+0DE6", "U+0DE7", "U+0DE8", "U+0DE9", "U+0DEA", "U+0DEB", "U+0DEC", "U+0DED", "U+0DEE", "U+0DEF">>,
       <<"U+0E50", "U+0E51", "U+0E52", "U+0E53", "U+0E54", "U+0E55", "U+0E56", "U+0E57", "U+0E58", "U+0E59">>,
       <<"U+0ED0", "U+0ED1", "U+0ED2", "U+0ED3", "U+0ED4", "U+0ED5", "U+0ED6", "U+0ED7", "U+0ED8", "U+0ED9">>,
       <<"U+0F20", "U+0F21", "U+0F22", "U+0F23", "U+0F24", "U+0F25", "U+0F26", "U+0F27", "U+0F28", "U+0F29">>,
       <<"U+1040", "U+1041", "U+1042", "U+1043", "U+1044", "U+1045", "U+1046", "U+1047", "U+1048", "U+1049">>,
       <<"U+1090", "U+1091", "U+1092", "U+1093", "U+1094", "U+1095", "U+1096", "U+1097", "U+1098", "U+1099">>,
       <<"U+17E0", "U+17E1", "U+17E2", "U+17E3", "U+17E4", "U+17E5", "U+17E6", "U+17E7", "U+17E8", "U+17E9">>,
       <<"U+1810", "U+1811", "U+1812", "U+1813", "U+1814", "U+1815", "U+1816", "U+1817", "U+1818", "U+1819">>,
       <<"U+1946", "U+1947", "U+1948", "U+1949", "U+194A", "U+194B", "U+194C", "U+194D", "U+194E", "U+194F">>,
       <<"U+19D0", "U+19D1", "U+19D2", "U+19D3", "U+19D4", "U+19D5", "U+19D6", "U+19D7", "U+19D8", "U+19D9">>,
       <<"U+1A80", "U+1A81", "U+1A82", "U+1A83", "U+1A84", "U+1A85", "U+1A86", "U+1A87", "U+1A88", "U+1A89">>,
       <<"U+1A90", "U+1A91", "U+1A92", "U+1A93", "U+1A94", "U+1A95", "U+1A96", "U+1A97", "U+1A98", "U+1A99">>,
       <<"U+1B50", "U+1B51", "U+1B52", "U+1B53", "U+1B54", "U+1B55", "U+1B56", "U+1B57", "U+1B58", "U+1B59">>,
       <<"U+1BB0", "U+1BB1", "U+1BB2", "U+1BB3", "U+1BB4", "U+1BB5", "U+1BB6", "U+1BB7", "U+1BB8", "U+1BB9">>,
       <<"U+1C40", "U+1C41", "U+1C42", "U+1C43", "U+1C44", "U+1C45", "U+1C46", "U+1C47", "U+1C48", "U+1C49">>,
       <<"U+1C50", "U+1C51", "U+1C52", "U+1C53", "U+1C54", "U+1C55", "U+1C56", "U+1C57", "U+1C58", "U+1C59">>,
       <<"U+A620", "U+A621", "U+A622", "U+A623", "U+A624", "U+A625", "U+A626", "U+A627", "U+A628", "U+A629">>,
       <<"U+A8D0", "U+A8D1", "U+A8D2", "U+A8D3", "U+A8D4", "U+A8D5", "U+A8D6", "U+A8D7", "U+A8D8", "U+A8D9">>,
       <<"U+A900", "U+A901", "U+A902", "U+A903", "U+A904", "U+A905", "U+A906", "U+A907", "U+A908", "U+A909">>,
       <<"U+A9D0", "U+A9D1", "U+A9D2", "U+A9D3", "U+A9D4", "U+A9D5", "U+A9D6", "U+A9D7", "U+A9D8", "U+A9D9">>,
       <<"U+A9F0", "U+A9F1", "U+A9F2", "U+A9F3", "U+A9F4", "U+A9F5", "U+A9F6", "U+A9F7", "U+A9F8", "U+A9F9">>,
       <<"U+AA50", "U+AA51", "U+AA52", "U+AA53", "U+AA54", "U+AA55", "U+AA56", "U+AA57", "U+AA58", "U+AA59">>,
       <<"U+ABF0", "U+ABF1", "U+ABF2", "U+ABF3", "U+ABF4", "U+ABF5", "U+ABF6", "U+ABF7", "U+ABF8", "U+ABF9">>,
       <<"U+FF10", "U+FF11", "U+FF12", "U+FF13", "U+FF14", "U+FF15", "U+FF16", "U+FF17", "U+FF18", "U+FF19">>,
       <<"U+104A0", "U+104A1", "U+104A2", "U+104A3", "U+104A4", "U+104A5", "U+104A6", "U+104A7", "U+104A8", "U+104A9">>,
       <<"U+10D30", "U+10D31", "U+10D32", "U+10D33", "U+10D34", "U+10D35", "U+10D36", "U+10D37", "U+10D38", "U+10D39">>,
       <<"U+11066", "U+11067", "U+11068", "U+11069", "U+1106A", "U+1106B", "U+1106C", "U+1106D", "U+1106E", "U+1106F">>,
       <<"U+110F0", "U+110F1", "U+110F2", "U+110F3", "U+110F4", "U+110F5", "U+110F6", "U+110F7", "U+110F8", "U+110F9">>,
       <<"U+11136", "U+11137", "U+11138", "U+11139", "U+1113A", "U+1113B", "U+1113C", "U+1113D", "U+1113E", "U+1113F">>,
       <<"U+111D0", "U+111D1", "U+111D2", "U+111D3", "U+111D4", "U+111D5", "U+111D6", "U+111D7", "U+111D8", "U+111D9">>,
       <<"U+112F0", "U+112F1", "U+112F2", "U+112F3", "U+112F4", "U+112F5", "U+112F6", "U+112F7", "U+112F8", "U+112F9">>,
       <<"U+11450", "U+11451", "U+11452", "U+11453", "U+11454", "U+11455", "U+11456", "U+11457", "U+11458", "U+11459">>,
       <<"U+114D0", "U+114D1", "U+114D2", "U+114D3", "U+114D4", "U+114D5", "U+114D6", "U+114D7", "U+114D8", "U+114D9">>,
       <<"U+11650", "U+11651", "U+11652", "U+11653", "U+11654", "U+11655", "U+11656", "U+11657", "U+11658", "U+11659">>,
       <<"U+116C0", "U+116C1", "U+116C2", "U+116C3", "U+116C4", "U+116C5", "U+116C6", "U+116C7", "U+116C8", "U+116C9">>,
       <<"U+11730", "U+11731", "U+11732", "U+11733", "U+11734", "U+11735", "U+11736", "U+11737", "U+11738", "U+11739">>,
       <<"U+118E0", "U+118E1", "U+118E2", "U+118E3", "U+118E4", "U+118E5", "U+118E6", "U+118E7", "U+118E8", "U+118E9">>,
       <<"U+11950", "U+11951", "U+11952", "U+11953", "U+11954", "U+11955", "U+11956", "U+11957", "U+11958", "U+11959">>,
       <<"U+11C50", "U+11C51", "U+11C52", "U+11C53", "U+11C54", "U+11C55", "U+11C56", "U+11C57", "U+11C58", "U+11C59">>,
       <<"U+11D50", "U+11D51", "U+11D52", "U+11D53", "U+11D54", "U+11D55", "U+11D56", "U+11D57", "U+11D58", "U+11D59">>,
       <<"U+11DA0", "U+11DA1", "U+11DA2", "U+11DA3", "U+11DA4", "U+11DA5", "U+11DA6", "U+11DA7", "U+11DA8", "U+11DA9">>,
       <<"U+16A60", "U+16A61", "U+16A62", "U+16A63", "U+16A64", "U+16A65", "U+16A66", "U+16A67", "U+16A68", "U+16A69">>,
       <<"U+16AC0", "U+16AC1", "U+16AC2", "U+16AC3", "U+16AC4", "U+16AC5", "U+16AC6", "U+16AC7", "U+16AC8", "U+16AC9">>,
       <<"U+16B50", "U+16B51", "U+16B52", "U+16B53", "U+16B54", "U+16B55", "U+16B56", "U+16B57", "U+16B58", "U+16B59">>,
       <<"U+1D7CE", "U+1D7CF", "U+1D7D0", "U+1D7D1", "U+1D7D2", "U+1D7D3", "U+1D7D4", "U+1D7D5", "U+1D7D6", "U+1D7D7">>,
       <<"U+1D7D8", "U+1D7D9", "U+1D7DA", "U+1D7DB", "U+1D7DC", "U+1D7DD", "U+1D7DE", "U+1D7DF", "U+1D7E0", "U+1D7E1">>,
       <<"U+1D7E2", "U+1D7E3", "U+1D7E4", "U+1D7E5", "U+1D7E6", "U+1D7E7", "U+1D7E8", "U+1D7E9", "U+1D7EA", "U+1D7EB">>,
       <<"U+1D7EC", "U+1D7ED", "U+1D7EE", "U+1D7EF", "U+1D7F0", "U+1D7F1", "U+1D7F2", "U+1D7F3", "U+1D7F4", "U+1D7F5">>,
       <<"U+1D7F6", "U+1D7F7", "U+1D7F8", "U+1D7F9", "U+1D7FA", "U+1D7FB", "U+1D7FC", "U+1D7FD", "U+1D7FE", "U+1D7FF">>,
       <<"U+1E140", "U+1E141", "U+1E142", "U+1E143", "U+1E144", "U+1E145", "U+1E146", "U+1E147", "U+1E148", "U+1E149">>,
       <<"U+1E2F0", "U+1E2F1", "U+1E2F2", "U+1E2F3", "U+1E2F4", "U+1E2F5", "U+1E2F6", "U+1E2F7", "U+1E2F8", "U+1E2F9">>,
       <<"U+1E950", "U+1E951", "U+1E952", "U+1E953", "U+1E954", "U+1E955", "U+1E956", "U+1E957", "U+1E958", "U+1E959">>,
       <<"U+1FBF0", "U+1FBF1", "U+1FBF2", "U+1FBF3", "U+1FBF4", "U+1FBF5", "U+1FBF6", "U+1FBF7", "U+1FBF8", "U+1FBF9">> >>

DecimalChars == { DecimalRows[r][i] : r \in 1..Len(DecimalRows), i \in 1..10 }

\* the characters for which str.isdigit() holds and which are no decimal
\* digits (superscripts, circled digits...): int() refuses them
OtherDigits ==
    { "²", "³", "¹", "U+1369", "U+136A", "U+136B", "U+136C", "U+136D",
      "U+136E", "U+136F", "U+1370", "U+1371", "U+19DA", "U+2070", "U+2074", "U+2075",
      "U+2076", "U+2077", "U+2078", "U+2079", "U+2080", "U+2081", "U+2082", "U+2083",
      "U+2084", "U+2085", "U+2086", "U+2087", "U+2088", "U+2089", "U+2460", "U+2461",
      "U+2462", "U+2463", "U+2464", "U+2465", "U+2466", "U+2467", "U+2468", "U+2474",
      "U+2475", "U+2476", "U+2477", "U+2478", "U+2479", "U+247A", "U+247B", "U+247C",
      "U+2488", "U+2489", "U+248A", "U+248B", "U+248C", "U+248D", "U+248E", "U+248F",
      "U+2490", "U+24EA", "U+24F5", "U+24F6", "U+24F7", "U+24F8", "U+24F9", "U+24FA",
      "U+24FB", "U+24FC", "U+24FD", "U+24FF", "U+2776", "U+2777", "U+2778", "U+2779",
      "U+277A", "U+277B", "U+277C", "U+277D", "U+277E", "U+2780", "U+2781", "U+2782",
      "U+2783", "U+2784", "U+2785", "U+2786", "U+2787", "U+2788", "U+278A", "U+278B",
      "U+278C", "U+278D", "U+278E", "U+278F", "U+2790", "U+2791", "U+2792", "U+10A40",
      "U+10A41", "U+10A42", "U+10A43", "U+10E60", "U+10E61", "U+10E62", "U+10E63", "U+10E64",
      "U+10E65", "U+10E66", "U+10E67", "U+10E68", "U+11052", "U+11053", "U+11054", "U+11055",
      "U+11056", "U+11057", "U+11058", "U+11059", "U+1105A", "U+1F100", "U+1F101", "U+1F102",
      "U+1F103", "U+1F104", "U+1F105", "U+1F106", "U+1F107", "U+1F108", "U+1F109", "U+1F10A" }

\* str.isdigit() for one character
IsDigit(c) == c \in DecimalChars \cup OtherDigits

\* str.isdecimal() for one character
IsDecimal(c) == c \in DecimalChars

\* str.isdigit(): not empty, and every character a digit
IsDigitStr(s) == s # <<>> /\ \A i \in 1..Len(s) : IsDigit(s[i])

DecimalValue ==
    [c \in DecimalChars |->
        (CHOOSE i \in 1..10 : \E r \in 1..Len(DecimalRows) : DecimalRows[r][i] = c) - 1]

\* A Python int, which has no width: its sign and the decimal digits of its
\* magnitude, most significant first and without leading zeros
PyLong(neg, digits) == [neg |-> neg, digits |-> digits]

\* sys.get_int_max_str_digits(): the longest run of digits int() converts
int_max_str_digits == 4300

\* "%.200R" in the message of int(): the text shown is the first 199
\* characters of the argument, after the opening quote
ReprShown(s) == SubSeq(s, 1, IF Len(s) < 199 THEN Len(s) ELSE 199)

Unsigned(t) == IF t # <<>> /\ t[1] \in {"+", HYPHEN} THEN Tail(t) ELSE t

\* the whitespace int() skips at both ends: Python's whitespace without the
\* four separators U+001C..U+001F
RECURSIVE IntStrip(_)
IntStrip(s) ==
    LET IsIntSpace(c) == IsSpace(c) /\ c \notin { "", "", "", "" } IN
    IF s # <<>> /\ IsIntSpace(Head(s)) THEN IntStrip(Tail(s))
    ELSE IF s # <<>> /\ IsIntSpace(s[Len(s)]) THEN IntStrip(SubSeq(s, 1, Len(s) - 1))
    ELSE s

\* the digits of a magnitude without its leading zeros
Normalize(digits) ==
    LET NonZero == { i \in 1..Len(digits) : digits[i] # 0 } IN
    IF NonZero = {} THEN <<0>>
    ELSE SubSeq(digits, CHOOSE i \in NonZero : \A j \in NonZero : i <= j, Len(digits))

\* int(s) for a str s.  After the whitespace and the sign, int() scans the
\* run of decimal digits and underscores at the start of what is left.  An
\* underscore first, last or doubled in the run is an invalid literal; then a
\* run of more than int_max_str_digits digits is refused with the ValueError
\* of the limit, whatever follows the run; then anything left after the run,
\* or an empty run, is an invalid literal
int(s) ==
    LET Scan(u) ==
            LET Stops == { i \in 1..Len(u) : ~IsDecimal(u[i]) /\ u[i] # UNDERSCORE }
                end == IF Stops = {} THEN Len(u)
                       ELSE (CHOOSE i \in Stops : \A j \in Stops : i <= j) - 1
                Invalid == [status |-> "invalid literal", value |-> PyLong(FALSE, <<0>>)]
            IN  IF end = 0 \/ u[1] = UNDERSCORE \/ u[end] = UNDERSCORE THEN Invalid
                ELSE IF \E i \in 1..(end - 1) : u[i] = UNDERSCORE /\ u[i + 1] = UNDERSCORE
                THEN Invalid
                ELSE IF Cardinality({ i \in 1..end : u[i] # UNDERSCORE }) > int_max_str_digits
                THEN [status |-> "limit", value |-> PyLong(FALSE, <<0>>)]
                ELSE IF end < Len(u) THEN Invalid
                ELSE LET run == SelectSeq(u, IsDecimal)
                         digits == Normalize([i \in 1..Len(run) |-> DecimalValue[run[i]]])
                     IN  [status |-> "ok",
                          value |-> PyLong(digits # <<0>> /\ Head(IntStrip(s)) = HYPHEN,
                                           digits)]
    IN  Scan(Unsigned(IntStrip(s)))

\* a returned tuple, or a raised ValueError: err says which raise it was and
\* named is the text interpolated into its message
NoChatRet == [ok |-> FALSE, chat_type |-> <<>>, target_id |-> PyLong(FALSE, <<0>>),
              err |-> "none", named |-> <<>>]

ChatKeyError(err, named) == [NoChatRet EXCEPT !.err = err, !.named = named]

\* lines 39-42: the id text to the returned tuple or the error.  The
\* ValueError of int() for an invalid literal shows the id text; the one of
\* the digit limit shows no text
TargetId(chat_type, target_id_str) ==
    IF ~IsDigitStr(target_id_str) THEN ChatKeyError("target_id", target_id_str)
    ELSE LET target_id == int(target_id_str) IN
         IF target_id.status = "invalid literal"
         THEN ChatKeyError("int", ReprShown(target_id_str))
         ELSE IF target_id.status = "limit" THEN ChatKeyError("int_limit", <<>>)
         ELSE [ok |-> TRUE, chat_type |-> chat_type, target_id |-> target_id.value,
               err |-> "none", named |-> <<>>]

\* parse_chat_key with `"-" in` and `"_" in` both tested on the whole chat_key
parse_chat_key_UnderscoreAnywhere(k) ==
    IF k = <<>> THEN ChatKeyError("empty", <<>>)
    ELSE IF ~Contains(k, HYPHEN) THEN ChatKeyError("no_hyphen", k)
    ELSE LET chat_part == Split1(k, HYPHEN)[2] IN
         IF ~Contains(k, UNDERSCORE) THEN ChatKeyError("no_underscore", k)
         ELSE LET parts == Split1(k, UNDERSCORE)
                  chat_type == parts[1]
                  target_id_str == parts[2]
              IN  IF chat_type \notin {GROUP, PRIVATE}
                  THEN ChatKeyError("chat_type", chat_type)
                  ELSE TargetId(chat_type, target_id_str)

\* lines 8-42.  The ValueError of int() at line 42 is err "int" for an id of
\* digits that are not all decimal and err "int_limit" for an id of more than
\* int_max_str_digits decimal digits
parse_chat_key(k) ==
    IF k = <<>> THEN ChatKeyError("empty", <<>>)
    ELSE IF ~Contains(k, HYPHEN) THEN ChatKeyError("no_hyphen", k)
    ELSE LET chat_part == Split1(k, HYPHEN)[2] IN
         IF ~Contains(chat_part, UNDERSCORE) THEN ChatKeyError("no_underscore", k)
         ELSE LET parts == Split1(chat_part, UNDERSCORE)
                  chat_type == parts[1]
                  target_id_str == parts[2]
              IN  IF chat_type \notin {GROUP, PRIVATE}
                  THEN ChatKeyError("chat_type", chat_type)
                  ELSE TargetId(chat_type, target_id_str)

(***************************************************************************)
(* ncm_api.search_songs_from_ncm                                           *)
(*                                                                         *)
(* A raw JSON object is a record whose fields are sets: {} when the key is *)
(* absent, {v} when it is present with value v.  Texts are single strings; *)
(* a text put together by the code is the sequence of its pieces.          *)
(***************************************************************************)
Has(field) == field # {}
The(field) == CHOOSE v \in field : TRUE

\* line 124 and line 131
UnknownAlbum == "unknown album"
DefaultCoverUrl == "default_cover_url"

\* ", ".join(names)
RECURSIVE JoinNames(_)
JoinNames(names) ==
    IF names = <<>> THEN <<>>
    ELSE IF Len(names) = 1 THEN <<names[1]>>
    ELSE <<names[1], ", ">> \o JoinNames(Tail(names))

\* s.get("al", {}) of an entry without the key
NoAlbum == [type |-> "dict", picUrl |-> {}, name |-> {}]

\* lines 123-124
CoverUrlOf(s, default_cover_url) ==
    LET al == IF Has(s.al) THEN The(s.al) ELSE NoAlbum
        cover_url_raw == IF Has(al.picUrl) THEN The(al.picUrl) ELSE ""
    IN  IF cover_url_raw # "" THEN <<cover_url_raw, "?param=140y140">> ELSE <<default_cover_url>>

\* lines 123-134: what raises inside the try.  s.get of an entry that is not
\* a dict and .get of an "al" that is null raise AttributeError (line 123);
\* the subscripts of lines 128-130 raise KeyError
MappingRaises(s) ==
    \/ s.type # "dict"
    \/ Has(s.al) /\ The(s.al).type # "dict"
    \/ ~Has(s.id)
    \/ ~Has(s.name)
    \/ Has(s.ar) /\ \E i \in 1..Len(The(s.ar)) : ~Has(The(s.ar)[i].name)

\* lines 127-134: the SongInfo built from a raw entry that does not raise
SongInfoOf(s, default_cover_url) ==
    LET ar == IF Has(s.ar) THEN The(s.ar) ELSE <<>>
        al == IF Has(s.al) THEN The(s.al) ELSE NoAlbum
    IN  [id |-> The(s.id),
         name |-> The(s.name),
         artist |-> JoinNames([i \in 1..Len(ar) |-> The(ar[i].name)]),
         album |-> IF Has(al.name) THEN The(al.name) ELSE UnknownAlbum,
         duration |-> IF Has(s.dt) THEN The(s.dt) ELSE 0,
         cover_url |-> CoverUrlOf(s, default_cover_url)]

\* lines 121-139: the loop.  An entry that raises inside the try reaches the
\* handler, whose message evaluates s.get('name', 'Unknown') (line 138): for
\* an entry that is not a dict this raises AttributeError out of the handler
\* and out of the loop; for a dict the entry is skipped
RECURSIVE SongLoop(_, _, _)
SongLoop(song_infos, entries, default_cover_url) ==
    IF entries = <<>> THEN [raises |-> FALSE, song_infos |-> song_infos]
    ELSE LET s == Head(entries) IN
         IF ~MappingRaises(s)
         THEN SongLoop(Append(song_infos, SongInfoOf(s, default_cover_url)),
                       Tail(entries), default_cover_url)
         ELSE IF s.type # "dict"
         THEN [raises |-> TRUE, song_infos |-> song_infos]
         ELSE SongLoop(song_infos, Tail(entries), default_cover_url)

\* songs_data[:max_results] taking one entry too many
SongsSlice_OneMore(songs_data, n) ==
    SubSeq(songs_data, 1, IF n + 1 < Len(songs_data) THEN n + 1 ELSE Len(songs_data))

\* line 121: songs_data[:max_results], for max_results >= 1
SongsSlice(songs_data, n) ==
    SubSeq(songs_data, 1, IF n < Len(songs_data) THEN n ELSE Len(songs_data))

\* line 114: result_dict.get("result", {}).get("songs", [])
SongsData(result_dict) ==
    IF Has(result_dict.result) /\ Has(The(result_dict.result).songs)
    THEN The(The(result_dict.result).songs)
    ELSE <<>>

SearchReturn(song_infos) == [status |-> "return", exc |-> "none", songs |-> song_infos]
SearchRaise(exc) == [status |-> "raise", exc |-> exc, songs |-> <<>>]
NoSearchRet == [status |-> "none", exc |-> "none", songs |-> <<>>]

\* lines 91-144.  response.raises: GetSearchResult itself raised (line 110),
\* which propagates, as does what the handler of line 138 raises
search_songs_from_ncm(response, n, default_cover_url) ==
    IF response.raises THEN SearchRaise("api")
    ELSE LET songs_data == SongsData(response) IN
         IF songs_data = <<>> THEN SearchRaise("ValueError: not found")
         ELSE LET loop == SongLoop(<<>>, SongsSlice(songs_data, n), default_cover_url)
              IN  IF loop.raises THEN SearchRaise("AttributeError")
                  ELSE IF loop.song_infos = <<>> THEN SearchRaise("ValueError: not parsed")
                  ELSE SearchReturn(loop.song_infos)

(***************************************************************************)
(* ncm_api session state                                                   *)
(***************************************************************************)
MUSIC_U == <<"M", "U", "S", "I", "C", "_", "U">>
CSRF == <<"_", "_", "c", "s", "r", "f">>

\* line 71
required_keys == <<MUSIC_U, CSRF>>

(***************************************************************************)
(* Cookie strings offered to the session: up to MaxSegments segments, each *)
(* one of SegmentForms, joined by ';'.  The forms are a pair with the      *)
(* user token, a pair with the CSRF key written with spaces, a pair on a   *)
(* new line with another token value, a key without '=', and nothing.      *)
(***************************************************************************)
MaxSegments == 2

\* at most MaxSessions Session objects are made in one run
MaxSessions == 2

SegmentForms ==
    { MUSIC_U \o <<EQ, "a">>,
      <<SP>> \o CSRF \o <<SP, EQ, SP, "b">>,
      <<NL>> \o MUSIC_U \o <<EQ, "b">>,
      MUSIC_U,
      <<>> }

RECURSIVE CookiesOf(_)
CookiesOf(n) ==
    IF n = 1 THEN SegmentForms
    ELSE {c \o <<SEMI>> \o f : c \in CookiesOf(n - 1), f \in SegmentForms}

SessionCookies == UNION {CookiesOf(n) : n \in 1..MaxSegments}

\* parse_cookie_string(c) for the offered strings, computed once
ParsedCookie == [c \in SessionCookies |-> parse_cookie_string(c)]

\* lines 24-27: _session_state at import; last_cookie None is the empty set
NoSession == [initialized |-> FALSE, last_cookie |-> {}]

\* the session pyncm starts with: no cookies.  serial tells the Session objects
\* apart: it counts the Session() objects made current so far
DefaultSession == [serial |-> 0, cookies |-> EmptyDict]

\* lines 78-81 and 180-181: a Session() with the cookies set, made current
NewSession(sess, cookies_dict) == [serial |-> sess.serial + 1, cookies |-> cookies_dict]

\* what a call on the session module returned and which path it took:
\* validated = lines 68-72 ran, applied = SetCurrentSession was called
NoCall == [op |-> "none", arg |-> <<>>, err |-> "none", keys |-> <<>>,
           validated |-> FALSE, applied |-> FALSE]

\* missing_keys reporting every required key as soon as one is absent
missing_keys_All(cookies_dict) ==
    IF \E i \in 1..Len(required_keys) : required_keys[i] \notin DOMAIN cookies_dict
    THEN required_keys ELSE <<>>

\* line 72: [k for k in required_keys if k not in cookies_dict]
missing_keys(cookies_dict) ==
    LET absent(k) == k \notin DOMAIN cookies_dict IN SelectSeq(required_keys, absent)

\* ensure_session_initialized without the unchanged-configuration check of line 63
ensure_session_initialized_NoSkip(st, sess, c) ==
    IF IsBlank(c)
    THEN [state |-> [st EXCEPT !.initialized = FALSE], session |-> sess,
          err |-> "not_configured", keys |-> <<>>,
          validated |-> FALSE, applied |-> FALSE]
    ELSE LET cookies_dict == ParsedCookie[c]
             missing == missing_keys(cookies_dict)
         IN  IF missing # <<>>
             THEN [state |-> [st EXCEPT !.initialized = FALSE], session |-> sess,
                   err |-> "missing_keys", keys |-> missing,
                   validated |-> TRUE, applied |-> FALSE]
             ELSE [state |-> [initialized |-> TRUE, last_cookie |-> {c}],
                   session |-> NewSession(sess, cookies_dict),
                   err |-> "none", keys |-> <<>>,
                   validated |-> TRUE, applied |-> TRUE]

\* lines 48-88.  The result carries the new _session_state, the new current
\* session and the returned error: err = "none" is `return None`; for
\* err = "missing_keys", keys is the list joined into the message after
\* "缺少必需字段: ".
ensure_session_initialized(st, sess, c) ==
    IF IsBlank(c)
    THEN [state |-> [st EXCEPT !.initialized = FALSE], session |-> sess,
          err |-> "not_configured", keys |-> <<>>,
          validated |-> FALSE, applied |-> FALSE]
    ELSE IF st.initialized /\ st.last_cookie = {c}
    THEN [state |-> st, session |-> sess, err |-> "none", keys |-> <<>>,
          validated |-> FALSE, applied |-> FALSE]
    ELSE LET cookies_dict == ParsedCookie[c]
             missing == missing_keys(cookies_dict)
         IN  IF missing # <<>>
             THEN [state |-> [st EXCEPT !.initialized = FALSE], session |-> sess,
                   err |-> "missing_keys", keys |-> missing,
                   validated |-> TRUE, applied |-> FALSE]
             ELSE [state |-> [initialized |-> TRUE, last_cookie |-> {c}],
                   session |-> NewSession(sess, cookies_dict),
                   err |-> "none", keys |-> <<>>,
                   validated |-> TRUE, applied |-> TRUE]

\* cleanup_pyncm_session making the empty session current and leaving
\* _session_state as it was
cleanup_pyncm_session_KeepsState(st, sess) ==
    IF st.initialized
    THEN [state |-> st, session |-> NewSession(sess, EmptyDict)]
    ELSE [state |-> st, session |-> sess]

\* lines 177-184
cleanup_pyncm_session(st, sess) ==
    IF st.initialized
    THEN [state |-> [initialized |-> FALSE, last_cookie |-> {}],
          session |-> NewSession(sess, EmptyDict)]
    ELSE [state |-> st, session |-> sess]

(***************************************************************************)
(* __init__.py: plugin load, the two sandbox methods and the cleanup       *)
(***************************************************************************)
\* lines 131-146: the same text as ncm_api.parse_cookie_string
init_parse_cookie_string(s) == parse_cookie_string(s)

\* lines 149-179: the cookies the load-time session gets; none when the
\* configured cookie is blank or lacks a required key
InitCookies(ncm_cookie) ==
    IF IsBlank(ncm_cookie) THEN {}
    ELSE LET cookies_dict == init_parse_cookie_string(ncm_cookie) IN
         IF missing_keys(cookies_dict) # <<>> THEN {} ELSE {cookies_dict}

\* lines 149-179: the value returned
init_pyncm_session(ncm_cookie) == InitCookies(ncm_cookie) # {}

\* The chat keys the host hands to play_song: "7", the same after a no-break space and a zero, the Arabic-Indic three,
\* the superscript two, a whole chat key, nothing, and one digit more than
\* int() converts
CtxChatKeys ==
    { <<"7">>,
      [i \in 1..(int_max_str_digits + 1) |-> "7"],
      <<NBSP, "0", "7">>,
      <<"U+0663">>,
      <<"²">>,
      <<"x", HYPHEN>> \o GROUP \o <<UNDERSCORE, "7">>,
      <<>> }

\* int(_ctx.chat_key) for those chat keys, computed once
ChatKeyInt == [s \in CtxChatKeys |-> int(s)]

\* int(s) does not raise ValueError
IntParses(s) == ChatKeyInt[s].status = "ok"

\* int(s) when it parses
IntOf(s) == ChatKeyInt[s].value

\* what get_bot() (line 427) and the awaited send_group_msg (lines 427-430)
\* can do: work, raise a ValueError, raise another exception
CallOutcomes == {"ok", "raises ValueError", "raises"}

NoRequest ==
    [op |-> "none", keyword |-> <<>>, response |-> [raises |-> FALSE, result |-> {}],
     primary_ok |-> TRUE, fallback_ok |-> TRUE, detail |-> [kind |-> "falsy", songs |-> {}],
     ctx_chat_key |-> <<>>, bot |-> "ok", send |-> "ok"]

\* songs and image: what the text returned by a successful search carries.
\* status "await" is a call suspended at its await
NoOutcome ==
    [op |-> "none", status |-> "none", msg |-> "none", songs |-> <<>>, image |-> "none"]

Returned(op, msg, songs) == [NoOutcome EXCEPT !.op = op, !.status = "return", !.msg = msg,
                                              !.songs = songs]
Raised(op, msg) == [NoOutcome EXCEPT !.op = op, !.status = "raise", !.msg = msg]

\* lines 188-206: the picture _download_image_as_pil ends with, given which
\* of the two downloads work; it raises nothing
BackgroundOf(primary_ok, fallback_ok) ==
    IF primary_ok THEN "background_url"
    ELSE IF fallback_ok THEN "default_cover_url"
    ELSE "gray (200, 200, 200)"

\* lines 328-370: search_songs up to the await of line 372.  The keyword
\* check of lines 328-329 raises outside the try; any exception inside the
\* try, that of the handler of line 365 included, is re-raised by line 390
SearchUntilImage(ready, keyword, response, max_search_results) ==
    IF IsBlank(keyword) THEN Raised("search", "ValueError: empty keyword")
    ELSE IF ~ready THEN Returned("search", "not configured", <<>>)
    ELSE IF response.raises THEN Raised("search", "Exception: search failed")
    ELSE LET songs_data == SongsData(response) IN
         IF songs_data = <<>> THEN Returned("search", "not found", <<>>)
         ELSE LET loop == SongLoop(<<>>, SongsSlice(songs_data, max_search_results),
                                   DefaultCoverUrl)
              IN  IF loop.raises THEN Raised("search", "Exception: search failed")
                  ELSE IF loop.song_infos = <<>>
                  THEN Returned("search", "not parsed", <<>>)
                  ELSE [NoOutcome EXCEPT !.op = "search", !.status = "await",
                                         !.songs = loop.song_infos]

\* lines 372-393: search_songs once _generate_song_list_image has answered
SearchAfterImage(o, image) == [Returned("search", "found", o.songs) EXCEPT !.image = image]

\* lines 318-393, the whole call
search_songs(ready, keyword, response, max_search_results, image) ==
    LET o == SearchUntilImage(ready, keyword, response, max_search_results) IN
    IF o.status = "await" THEN SearchAfterImage(o, image) ELSE o

\* lines 422-430: the one transport call of play_song; result is "pending"
\* while the call is awaited
MusicMessage(group_id, result) == [kind |-> "music", group_id |-> group_id, result |-> result]

\* lines 407-430: play_song up to the await of line 427, the message
\* returned and the transport calls made.  detail.kind is what GetTrackDetail
\* did: raised a ValueError, raised something else, answered a falsy value,
\* a tuple, or a dict.  get_bot() is evaluated before int(_ctx.chat_key)
PlayUntilSend(detail, ctx_chat_key, bot) ==
    IF detail.kind = "raises ValueError"
    THEN [outcome |-> Returned("play", "invalid chat_key", <<>>), sent |-> <<>>]
    ELSE IF detail.kind = "raises"
    THEN [outcome |-> Returned("play", "play failed", <<>>), sent |-> <<>>]
    ELSE IF detail.kind = "falsy"
    THEN [outcome |-> Returned("play", "not found", <<>>), sent |-> <<>>]
    ELSE IF detail.kind = "tuple"
    THEN [outcome |-> Returned("play", "play failed", <<>>), sent |-> <<>>]
    ELSE IF ~Has(detail.songs) \/ The(detail.songs) = <<>>
    THEN [outcome |-> Returned("play", "not found", <<>>), sent |-> <<>>]
    ELSE LET song_detail == The(detail.songs)[1] IN
         IF ~Has(song_detail.name)
              \/ (Has(song_detail.ar) /\ \E i \in 1..Len(The(song_detail.ar)) :
                      ~Has(The(song_detail.ar)[i].name))
         THEN [outcome |-> Returned("play", "play failed", <<>>), sent |-> <<>>]
         ELSE IF bot = "raises ValueError"
         THEN [outcome |-> Returned("play", "invalid chat_key", <<>>), sent |-> <<>>]
         ELSE IF bot = "raises"
         THEN [outcome |-> Returned("play", "play failed", <<>>), sent |-> <<>>]
         ELSE IF ~IntParses(ctx_chat_key)
         THEN [outcome |-> Returned("play", "invalid chat_key", <<>>), sent |-> <<>>]
         ELSE [outcome |-> [NoOutcome EXCEPT !.op = "play", !.status = "await"],
               sent |-> <<MusicMessage(IntOf(ctx_chat_key), "pending")>>]

\* lines 430-438: play_song once send_group_msg has answered; line 434
\* catches a ValueError of the send as it does one of int()
PlayAfterSend(r, send) ==
    [outcome |-> Returned("play",
                          IF send = "ok" THEN "playing"
                          ELSE IF send = "raises ValueError" THEN "invalid chat_key"
                          ELSE "play failed",
                          <<>>),
     sent |-> <<MusicMessage(r.sent[1].group_id, send)>>]

\* lines 396-441, the whole call
play_song(detail, ctx_chat_key, bot, send) ==
    LET r == PlayUntilSend(detail, ctx_chat_key, bot) IN
    IF r.outcome.status = "await" THEN PlayAfterSend(r, send) ELSE r

\* lines 444-453
cleanup(ready, sess) == IF ready THEN NewSession(sess, EmptyDict) ELSE sess

(***************************************************************************)
(* card_api.py: get_signed_netease_card.  A value of the decoded body     *)
(* (resp.json()) is kept as [type, num, den, text]: the Python type; for   *)
(* int the number num; for float the fraction num / den equal to it (den   *)
(* = 0: nan or an infinity); for bool num 1 or 0; for str the text; for    *)
(* list and dict the number num of items.  An optional key is a set: empty *)
(* when the key is absent.                                                 *)
(***************************************************************************)
\* line 78: resp_json.get("code") == 1, Python's ==: the int 1, the float
\* 1.0 and True compare equal to 1; None (also of an absent key), a string
\* and a container do not
PyEqualsOne(code) ==
    \E x \in code :
        \/ x.type \in {"int", "bool"} /\ x.num = 1
        \/ x.type = "float" /\ x.den > 0 /\ x.num = x.den

\* line 78: the truth value of resp_json.get("message")
Truthy(message) ==
    \E x \in message :
        \/ x.type \in {"int", "bool", "list", "dict"} /\ x.num # 0
        \/ x.type = "float" /\ ~(x.den > 0 /\ x.num = 0)
        \/ x.type = "str" /\ x.text # <<>>

NoCardCall ==
    [transport_ok |-> TRUE, status_code |-> 200, cover_url |-> {},
     body |-> [kind |-> "object", code |-> {}, message |-> {}]]

\* payload: {} for None
NoCardRet == [status |-> "none", payload |-> {}, cover |-> <<>>]

\* cover: line 68, cover_url if cover_url else ""
CardReturn(c, payload) ==
    [status |-> "return", payload |-> payload,
     cover |-> IF c.cover_url = {} THEN <<>> ELSE The(c.cover_url)]

\* the request is answered whatever the status, and the body is taken for
\* a success whenever it carries code 1 and a message
get_signed_netease_card_AnyStatus(c) ==
    IF ~c.transport_ok THEN CardReturn(c, {})
    ELSE IF c.body.kind # "object" THEN CardReturn(c, {})
    ELSE IF PyEqualsOne(c.body.code) /\ Truthy(c.body.message)
         THEN CardReturn(c, c.body.message)
         ELSE CardReturn(c, {})

\* lines 41-87.  Everything from building the form data to reading the body
\* is inside the try of line 60, and line 84 catches Exception: a transport
\* error (line 75), a body that is not JSON (line 77) and a JSON body that
\* is not an object and so has no get (line 78) all end at line 87
get_signed_netease_card(c) ==
    IF ~c.transport_ok THEN CardReturn(c, {})
    ELSE IF c.status_code # 200 THEN CardReturn(c, {})
    ELSE IF c.body.kind # "object" THEN CardReturn(c, {})
    ELSE IF PyEqualsOne(c.body.code) /\ Truthy(c.body.message)
         THEN CardReturn(c, c.body.message)
         ELSE CardReturn(c, {})

(***************************************************************************)
(* image_gen.py: download_image_as_pil and generate_song_list_image, and   *)
(* the copy of the compositor in __init__.py.  An image is kept as its     *)
(* size, its background and the list of what was drawn on it, each item    *)
(* with the rows of pixels it occupies (top..bottom).  A text is a str, a   *)
(* sequence of characters, and textwrap.fill is modelled by the steps of   *)
(* the standard library's TextWrapper with its default options.            *)
(***************************************************************************)
\* lines 68-70
img_width == 800
img_height == 800
margin == 30
header_height == 80

\* a compositor whose last fallback is a black canvas
download_image_as_pil_Black(url_ok, fallback_ok, size) ==
    IF url_ok THEN [from |-> "url", color |-> <<>>, size |-> size]
    ELSE IF fallback_ok THEN [from |-> "fallback_url", color |-> <<>>, size |-> size]
    ELSE [from |-> "solid", color |-> <<0, 0, 0, 255>>, size |-> size]

\* lines 15-44: the first URL that downloads gives the background, resized
\* to size; every exception of an attempt is caught at line 39, and line 44
\* makes a gray canvas when no URL downloads
download_image_as_pil(url_ok, fallback_ok, size) ==
    IF url_ok THEN [from |-> "url", color |-> <<>>, size |-> size]
    ELSE IF fallback_ok THEN [from |-> "fallback_url", color |-> <<>>, size |-> size]
    ELSE [from |-> "solid", color |-> <<200, 200, 200, 255>>, size |-> size]

\* __init__.py lines 188-206, in the same form
init_download_image_as_pil(url_ok, fallback_ok, size) ==
    LET b == BackgroundOf(url_ok, fallback_ok) IN
    IF b = "background_url" THEN [from |-> "url", color |-> <<>>, size |-> size]
    ELSE IF b = "default_cover_url" THEN [from |-> "fallback_url", color |-> <<>>, size |-> size]
    ELSE [from |-> "solid", color |-> <<200, 200, 200, 255>>, size |-> size]

\* The texts of the compositor are sequences of code points, ord(c) of each
\* character, so that every character of Unicode is a character of a text.
ORD_SP == 32
ORD_HYPHEN == 45

\* string.whitespace, the six characters textwrap replaces: "\t\n\x0b\x0c\r "
whitespace == {9, 10, 11, 12, 13, 32}

\* str.isspace() for one code point: what str.strip() removes
IsSpaceOrd(c) ==
    c \in (9..13) \cup (28..32) \cup {133, 160, 5760} \cup (8192..8202)
          \cup {8232, 8233, 8239, 8287, 12288}

\* the code points of the zero of each run of ten decimal digits of Unicode
DecimalZeros ==
    { 48, 1632, 1776, 1984, 2406, 2534, 2662, 2790, 2918, 3046,
      3174, 3302, 3430, 3558, 3664, 3792, 3872, 4160, 4240, 6112,
      6160, 6470, 6608, 6784, 6800, 6992, 7088, 7232, 7248, 42528,
      43216, 43264, 43472, 43504, 43600, 44016, 65296, 66720, 68912, 69734,
      69872, 69942, 70096, 70384, 70736, 70864, 71248, 71360, 71472, 71904,
      72016, 72784, 73040, 73120, 92768, 92864, 93008, 120782, 120792, 120802,
      120812, 120822, 123200, 123632, 125264, 130032 }

\* \d of the re module for one code point: a decimal digit
IsDecimalOrd(c) == \E z \in DecimalZeros : z <= c /\ c <= z + 9

\* The ranges of the code points for which str.isalnum() holds, with the
\* underscore (95): the word characters of the Unicode database of the
\* interpreter (Unicode 14.0 for CPython 3.11).  Each range is written as
\* its first and its last code point, one range after the other
WordRanges ==
    << 48, 57,  65, 90,  95, 95,  97, 122,  170, 170,
       178, 179,  181, 181,  185, 186,  188, 190,  192, 214,
       216, 246,  248, 705,  710, 721,  736, 740,  748, 748,
       750, 750,  880, 884,  886, 887,  890, 893,  895, 895,
       902, 902,  904, 906,  908, 908,  910, 929,  931, 1013,
       1015, 1153,  1162, 1327,  1329, 1366,  1369, 1369,  1376, 1416,
       1488, 1514,  1519, 1522,  1568, 1610,  1632, 1641,  1646, 1647,
       1649, 1747,  1749, 1749,  1765, 1766,  1774, 1788,  1791, 1791,
       1808, 1808,  1810, 1839,  1869, 1957,  1969, 1969,  1984, 2026,
       2036, 2037,  2042, 2042,  2048, 2069,  2074, 2074,  2084, 2084,
       2088, 2088,  2112, 2136,  2144, 2154,  2160, 2183,  2185, 2190,
       2208, 2249,  2308, 2361,  2365, 2365,  2384, 2384,  2392, 2401,
       2406, 2415,  2417, 2432,  2437, 2444,  2447, 2448,  2451, 2472,
       2474, 2480,  2482, 2482,  2486, 2489,  2493, 2493,  2510, 2510,
       2524, 2525,  2527, 2529,  2534, 2545,  2548, 2553,  2556, 2556,
       2565, 2570,  2575, 2576,  2579, 2600,  2602, 2608,  2610, 2611,
       2613, 2614,  2616, 2617,  2649, 2652,  2654, 2654,  2662, 2671,
       2674, 2676,  2693, 2701,  2703, 2705,  2707, 2728,  2730, 2736,
       2738, 2739,  2741, 2745,  2749, 2749,  2768, 2768,  2784, 2785,
       2790, 2799,  2809, 2809,  2821, 2828,  2831, 2832,  2835, 2856,
       2858, 2864,  2866, 2867,  2869, 2873,  2877, 2877,  2908, 2909,
       2911, 2913,  2918, 2927,  2929, 2935,  2947, 2947,  2949, 2954,
       2958, 2960,  2962, 2965,  2969, 2970,  2972, 2972,  2974, 2975,
       2979, 2980,  2984, 2986,  2990, 3001,  3024, 3024,  3046, 3058,
       3077, 3084,  3086, 3088,  3090, 3112,  3114, 3129,  3133, 3133,
       3160, 3162,  3165, 3165,  3168, 3169,  3174, 3183,  3192, 3198,
       3200, 3200,  3205, 3212,  3214, 3216,  3218, 3240,  3242, 3251,
       3253, 3257,  3261, 3261,  3293, 3294,  3296, 3297,  3302, 3311,
       3313, 3314,  3332, 3340,  3342, 3344,  3346, 3386,  3389, 3389,
       3406, 3406,  3412, 3414,  3416, 3425,  3430, 3448,  3450, 3455,
       3461, 3478,  3482, 3505,  3507, 3515,  3517, 3517,  3520, 3526,
       3558, 3567,  3585, 3632,  3634, 3635,  3648, 3654,  3664, 3673,
       3713, 3714,  3716, 3716,  3718, 3722,  3724, 3747,  3749, 3749,
       3751, 3760,  3762, 3763,  3773, 3773,  3776, 3780,  3782, 3782,
       3792, 3801,  3804, 3807,  3840, 3840,  3872, 3891,  3904, 3911,
       3913, 3948,  3976, 3980,  4096, 4138,  4159, 4169,  4176, 4181,
       4186, 4189,  4193, 4193,  4197, 4198,  4206, 4208,  4213, 4225,
       4238, 4238,  4240, 4249,  4256, 4293,  4295, 4295,  4301, 4301,
       4304, 4346,  4348, 4680,  4682, 4685,  4688, 4694,  4696, 4696,
       4698, 4701,  4704, 4744,  4746, 4749,  4752, 4784,  4786, 4789,
       4792, 4798,  4800, 4800,  4802, 4805,  4808, 4822,  4824, 4880,
       4882, 4885,  4888, 4954,  4969, 4988,  4992, 5007,  5024, 5109,
       5112, 5117,  5121, 5740,  5743, 5759,  5761, 5786,  5792, 5866,
       5870, 5880,  5888, 5905,  5919, 5937,  5952, 5969,  5984, 5996,
       5998, 6000,  6016, 6067,  6103, 6103,  6108, 6108,  6112, 6121,
       6128, 6137,  6160, 6169,  6176, 6264,  6272, 6276,  6279, 6312,
       6314, 6314,  6320, 6389,  6400, 6430,  6470, 6509,  6512, 6516,
       6528, 6571,  6576, 6601,  6608, 6618,  6656, 6678,  6688, 6740,
       6784, 6793,  6800, 6809,  6823, 6823,  6917, 6963,  6981, 6988,
       6992, 7001,  7043, 7072,  7086, 7141,  7168, 7203,  7232, 7241,
       7245, 7293,  7296, 7304,  7312, 7354,  7357, 7359,  7401, 7404,
       7406, 7411,  7413, 7414,  7418, 7418,  7424, 7615,  7680, 7957,
       7960, 7965,  7968, 8005,  8008, 8013,  8016, 8023,  8025, 8025,
       8027, 8027,  8029, 8029,  8031, 8061,  8064, 8116,  8118, 8124,
       8126, 8126,  8130, 8132,  8134, 8140,  8144, 8147,  8150, 8155,
       8160, 8172,  8178, 8180,  8182, 8188,  8304, 8305,  8308, 8313,
       8319, 8329,  8336, 8348,  8450, 8450,  8455, 8455,  8458, 8467,
       8469, 8469,  8473, 8477,  8484, 8484,  8486, 8486,  8488, 8488,
       8490, 8493,  8495, 8505,  8508, 8511,  8517, 8521,  8526, 8526,
       8528, 8585,  9312, 9371,  9450, 9471,  10102, 10131,  11264, 11492,
       11499, 11502,  11506, 11507,  11517, 11517,  11520, 11557,  11559, 11559,
       11565, 11565,  11568, 11623,  11631, 11631,  11648, 11670,  11680, 11686,
       11688, 11694,  11696, 11702,  11704, 11710,  11712, 11718,  11720, 11726,
       11728, 11734,  11736, 11742,  11823, 11823,  12293, 12295,  12321, 12329,
       12337, 12341,  12344, 12348,  12353, 12438,  12445, 12447,  12449, 12538,
       12540, 12543,  12549, 12591,  12593, 12686,  12690, 12693,  12704, 12735,
       12784, 12799,  12832, 12841,  12872, 12879,  12881, 12895,  12928, 12937,
       12977, 12991,  13312, 19903,  19968, 42124,  42192, 42237,  42240, 42508,
       42512, 42539,  42560, 42606,  42623, 42653,  42656, 42735,  42775, 42783,
       42786, 42888,  42891, 42954,  42960, 42961,  42963, 42963,  42965, 42969,
       42994, 43009,  43011, 43013,  43015, 43018,  43020, 43042,  43056, 43061,
       43072, 43123,  43138, 43187,  43216, 43225,  43250, 43255,  43259, 43259,
       43261, 43262,  43264, 43301,  43312, 43334,  43360, 43388,  43396, 43442,
       43471, 43481,  43488, 43492,  43494, 43518,  43520, 43560,  43584, 43586,
       43588, 43595,  43600, 43609,  43616, 43638,  43642, 43642,  43646, 43695,
       43697, 43697,  43701, 43702,  43705, 43709,  43712, 43712,  43714, 43714,
       43739, 43741,  43744, 43754,  43762, 43764,  43777, 43782,  43785, 43790,
       43793, 43798,  43808, 43814,  43816, 43822,  43824, 43866,  43868, 43881,
       43888, 44002,  44016, 44025,  44032, 55203,  55216, 55238,  55243, 55291,
       63744, 64109,  64112, 64217,  64256, 64262,  64275, 64279,  64285, 64285,
       64287, 64296,  64298, 64310,  64312, 64316,  64318, 64318,  64320, 64321,
       64323, 64324,  64326, 64433,  64467, 64829,  64848, 64911,  64914, 64967,
       65008, 65019,  65136, 65140,  65142, 65276,  65296, 65305,  65313, 65338,
       65345, 65370,  65382, 65470,  65474, 65479,  65482, 65487,  65490, 65495,
       65498, 65500,  65536, 65547,  65549, 65574,  65576, 65594,  65596, 65597,
       65599, 65613,  65616, 65629,  65664, 65786,  65799, 65843,  65856, 65912,
       65930, 65931,  66176, 66204,  66208, 66256,  66273, 66299,  66304, 66339,
       66349, 66378,  66384, 66421,  66432, 66461,  66464, 66499,  66504, 66511,
       66513, 66517,  66560, 66717,  66720, 66729,  66736, 66771,  66776, 66811,
       66816, 66855,  66864, 66915,  66928, 66938,  66940, 66954,  66956, 66962,
       66964, 66965,  66967, 66977,  66979, 66993,  66995, 67001,  67003, 67004,
       67072, 67382,  67392, 67413,  67424, 67431,  67456, 67461,  67463, 67504,
       67506, 67514,  67584, 67589,  67592, 67592,  67594, 67637,  67639, 67640,
       67644, 67644,  67647, 67669,  67672, 67702,  67705, 67742,  67751, 67759,
       67808, 67826,  67828, 67829,  67835, 67867,  67872, 67897,  67968, 68023,
       68028, 68047,  68050, 68096,  68112, 68115,  68117, 68119,  68121, 68149,
       68160, 68168,  68192, 68222,  68224, 68255,  68288, 68295,  68297, 68324,
       68331, 68335,  68352, 68405,  68416, 68437,  68440, 68466,  68472, 68497,
       68521, 68527,  68608, 68680,  68736, 68786,  68800, 68850,  68858, 68899,
       68912, 68921,  69216, 69246,  69248, 69289,  69296, 69297,  69376, 69415,
       69424, 69445,  69457, 69460,  69488, 69505,  69552, 69579,  69600, 69622,
       69635, 69687,  69714, 69743,  69745, 69746,  69749, 69749,  69763, 69807,
       69840, 69864,  69872, 69881,  69891, 69926,  69942, 69951,  69956, 69956,
       69959, 69959,  69968, 70002,  70006, 70006,  70019, 70066,  70081, 70084,
       70096, 70106,  70108, 70108,  70113, 70132,  70144, 70161,  70163, 70187,
       70272, 70278,  70280, 70280,  70282, 70285,  70287, 70301,  70303, 70312,
       70320, 70366,  70384, 70393,  70405, 70412,  70415, 70416,  70419, 70440,
       70442, 70448,  70450, 70451,  70453, 70457,  70461, 70461,  70480, 70480,
       70493, 70497,  70656, 70708,  70727, 70730,  70736, 70745,  70751, 70753,
       70784, 70831,  70852, 70853,  70855, 70855,  70864, 70873,  71040, 71086,
       71128, 71131,  71168, 71215,  71236, 71236,  71248, 71257,  71296, 71338,
       71352, 71352,  71360, 71369,  71424, 71450,  71472, 71483,  71488, 71494,
       71680, 71723,  71840, 71922,  71935, 71942,  71945, 71945,  71948, 71955,
       71957, 71958,  71960, 71983,  71999, 71999,  72001, 72001,  72016, 72025,
       72096, 72103,  72106, 72144,  72161, 72161,  72163, 72163,  72192, 72192,
       72203, 72242,  72250, 72250,  72272, 72272,  72284, 72329,  72349, 72349,
       72368, 72440,  72704, 72712,  72714, 72750,  72768, 72768,  72784, 72812,
       72818, 72847,  72960, 72966,  72968, 72969,  72971, 73008,  73030, 73030,
       73040, 73049,  73056, 73061,  73063, 73064,  73066, 73097,  73112, 73112,
       73120, 73129,  73440, 73458,  73648, 73648,  73664, 73684,  73728, 74649,
       74752, 74862,  74880, 75075,  77712, 77808,  77824, 78894,  82944, 83526,
       92160, 92728,  92736, 92766,  92768, 92777,  92784, 92862,  92864, 92873,
       92880, 92909,  92928, 92975,  92992, 92995,  93008, 93017,  93019, 93025,
       93027, 93047,  93053, 93071,  93760, 93846,  93952, 94026,  94032, 94032,
       94099, 94111,  94176, 94177,  94179, 94179,  94208, 100343,  100352, 101589,
       101632, 101640,  110576, 110579,  110581, 110587,  110589, 110590,  110592, 110882,
       110928, 110930,  110948, 110951,  110960, 111355,  113664, 113770,  113776, 113788,
       113792, 113800,  113808, 113817,  119520, 119539,  119648, 119672,  119808, 119892,
       119894, 119964,  119966, 119967,  119970, 119970,  119973, 119974,  119977, 119980,
       119982, 119993,  119995, 119995,  119997, 120003,  120005, 120069,  120071, 120074,
       120077, 120084,  120086, 120092,  120094, 120121,  120123, 120126,  120128, 120132,
       120134, 120134,  120138, 120144,  120146, 120485,  120488, 120512,  120514, 120538,
       120540, 120570,  120572, 120596,  120598, 120628,  120630, 120654,  120656, 120686,
       120688, 120712,  120714, 120744,  120746, 120770,  120772, 120779,  120782, 120831,
       122624, 122654,  123136, 123180,  123191, 123197,  123200, 123209,  123214, 123214,
       123536, 123565,  123584, 123627,  123632, 123641,  124896, 124902,  124904, 124907,
       124909, 124910,  124912, 124926,  124928, 125124,  125127, 125135,  125184, 125251,
       125259, 125259,  125264, 125273,  126065, 126123,  126125, 126127,  126129, 126132,
       126209, 126253,  126255, 126269,  126464, 126467,  126469, 126495,  126497, 126498,
       126500, 126500,  126503, 126503,  126505, 126514,  126516, 126519,  126521, 126521,
       126523, 126523,  126530, 126530,  126535, 126535,  126537, 126537,  126539, 126539,
       126541, 126543,  126545, 126546,  126548, 126548,  126551, 126551,  126553, 126553,
       126555, 126555,  126557, 126557,  126559, 126559,  126561, 126562,  126564, 126564,
       126567, 126570,  126572, 126578,  126580, 126583,  126585, 126588,  126590, 126590,
       126592, 126601,  126603, 126619,  126625, 126627,  126629, 126633,  126635, 126651,
       127232, 127244,  130032, 130041,  131072, 173791,  173824, 177976,  177984, 178205,
       178208, 183969,  183984, 191456,  194560, 195101,  196608, 201546 >>

\* \w of the re module for one code point: str.isalnum() or an underscore
IsWordChar(c) ==
    \E r \in 1..(Len(WordRanges) \div 2) : WordRanges[2 * r - 1] <= c /\ c <= WordRanges[2 * r]

\* TextWrapper._munge_whitespace of a text that begins at column col of its
\* line: str.expandtabs(8), a tab (9) reaching to the next multiple of 8 of
\* the column counted from the last line break (10 or 13), then each of the
\* six characters of string.whitespace becomes a blank
RECURSIVE munge_whitespace(_, _)
munge_whitespace(text, col) ==
    LET Blanked(s) ==
            [k \in 1..Len(s) |->
                IF s[k] \in whitespace THEN ORD_SP ELSE s[k]]
        Tabs == { k \in 1..Len(text) : text[k] = 9 }
        tab == CHOOSE k \in Tabs : \A m \in Tabs : k <= m
        Breaks == { k \in 1..(tab - 1) : text[k] \in {10, 13} }
        column == IF Breaks = {} THEN col + tab - 1
                  ELSE tab - 1 - (CHOOSE k \in Breaks : \A m \in Breaks : m <= k)
        stop == column + 8 - (column % 8)
    IN  IF Tabs = {} THEN Blanked(text)
        ELSE Blanked(SubSeq(text, 1, tab - 1)) \o [k \in 1..(stop - column) |-> ORD_SP]
             \o munge_whitespace(SubSeq(text, tab + 1, Len(text)), stop)

\* TextWrapper.wordsep_re matched at position p of a munged text t: the
\* index of the last character of the match.  A match is a run of blanks,
\* or a run of two or more hyphens after a word character or one of
\* !"'&.,? (33, 34, 39, 38, 46, 44, 63) and before a word character, or the shortest run of other
\* characters that ends with the hyphen of a hyphenated word (a hyphen
\* after two letters, or after letter-hyphen-letter, and before two
\* letters or letter-hyphen-letter), before a blank, at the end of the text,
\* or before such a run of hyphens.  A letter is a word character that is
\* not a decimal digit
wordsep_re(t, p) ==
    LET Match(word, digit) ==
            LET Ch(i) == IF i >= 1 /\ i <= Len(t) THEN t[i] ELSE 0 - 1
                IsL(i) == i \in word /\ i \notin digit
                IsWP(i) == i \in word \/ Ch(i) \in {33, 34, 39, 38, 46, 44, 63}
                RunEnd(i) == CHOOSE e \in i..Len(t) :
                                 /\ \A k \in i..e : t[k] = t[i]
                                 /\ Ch(e + 1) # t[i]
                Dashes(i) ==
                    Ch(i) = ORD_HYPHEN /\ Ch(i + 1) = ORD_HYPHEN
                        /\ (RunEnd(i) + 1) \in word
                Hyphenated(e) ==
                    /\ Ch(e) = ORD_HYPHEN
                    /\ \/ IsL(e - 2) /\ IsL(e - 1)
                       \/ IsL(e - 3) /\ Ch(e - 2) = ORD_HYPHEN /\ IsL(e - 1)
                    /\ IsL(e + 1)
                    /\ IsL(e + 2) \/ (Ch(e + 2) = ORD_HYPHEN /\ IsL(e + 3))
                Stops == { e \in (p + 1)..(Len(t) + 1) :
                              \/ Hyphenated(e)
                              \/ e > Len(t) \/ Ch(e) = ORD_SP
                              \/ IsWP(e - 1) /\ Dashes(e) }
                stop == CHOOSE e \in Stops : \A f \in Stops : e <= f
            IN  IF t[p] = ORD_SP \/ (IsWP(p - 1) /\ Dashes(p)) THEN RunEnd(p)
                ELSE IF Hyphenated(stop) THEN stop
                ELSE stop - 1
    IN  Match({ i \in 1..Len(t) : IsWordChar(t[i]) },
              { i \in 1..Len(t) : IsDecimalOrd(t[i]) })

\* TextWrapper._split from position p on: the chunks of wordsep_re.split,
\* empty ones left out
RECURSIVE split_chunks(_, _)
split_chunks(t, p) ==
    IF p > Len(t) THEN <<>>
    ELSE LET e == wordsep_re(t, p)
         IN  <<SubSeq(t, p, e)>> \o split_chunks(t, e + 1)

\* TextWrapper._wrap_chunks, at being the place in its loops.  At "line" a
\* line begins, and a blank chunk at its start is dropped unless it is the
\* first line; at "fit" chunks are taken while they fit, and then a chunk
\* longer than width is broken by _handle_long_word: after its last hyphen
\* within the room left when something other than a hyphen comes before
\* it, else at the room left; at "end" a blank chunk at the end of the line
\* is dropped and the line is kept unless it is empty.  A chunk is blank
\* when str.strip() leaves nothing of it: when all of it is whitespace
RECURSIVE wrap_chunks(_, _, _, _, _)
wrap_chunks(chunks, cur_line, lines, width, at) ==
    IF at = "line"
    THEN IF chunks = <<>> THEN lines
         ELSE IF (\A k \in 1..Len(Head(chunks)) : IsSpaceOrd(Head(chunks)[k])) /\ lines # <<>>
         THEN wrap_chunks(Tail(chunks), <<>>, lines, width, "fit")
         ELSE wrap_chunks(chunks, <<>>, lines, width, "fit")
    ELSE IF at = "fit"
    THEN IF chunks = <<>> THEN wrap_chunks(chunks, cur_line, lines, width, "end")
         ELSE IF Len(Concat(cur_line)) + Len(Head(chunks)) <= width
         THEN wrap_chunks(Tail(chunks), Append(cur_line, Head(chunks)), lines, width, "fit")
         ELSE IF Len(Head(chunks)) > width
         THEN LET space_left == width - Len(Concat(cur_line))
                  Hy == { h \in 1..space_left : Head(chunks)[h] = ORD_HYPHEN }
                  end == IF \E h \in Hy : \E i \in 1..(h - 1) : Head(chunks)[i] # ORD_HYPHEN
                         THEN CHOOSE h \in Hy : \A g \in Hy : g <= h
                         ELSE space_left
              IN  wrap_chunks(<<SubSeq(Head(chunks), end + 1, Len(Head(chunks)))>>
                                  \o Tail(chunks),
                              Append(cur_line, SubSeq(Head(chunks), 1, end)),
                              lines, width, "end")
         ELSE wrap_chunks(chunks, cur_line, lines, width, "end")
    ELSE IF cur_line # <<>>
            /\ \A k \in 1..Len(cur_line[Len(cur_line)]) : IsSpaceOrd(cur_line[Len(cur_line)][k])
    THEN wrap_chunks(chunks, <<>>,
                     IF Len(cur_line) > 1
                     THEN Append(lines, Concat(SubSeq(cur_line, 1, Len(cur_line) - 1)))
                     ELSE lines,
                     width, "line")
    ELSE wrap_chunks(chunks, <<>>,
                     IF cur_line # <<>> THEN Append(lines, Concat(cur_line)) ELSE lines,
                     width, "line")

Min(a, b) == IF a <= b THEN a ELSE b

\* lines 129-130
chars_per_line == (img_width - margin * 2 - 60 - 120) \div 20

\* line 142: artist, " - ", album
artist_album_text(song) == song.artist \o <<ORD_SP, ORD_HYPHEN, ORD_SP>> \o song.album

\* the songs of the lists drawn below, a = 97, b = 98...: the CJK title
\* U+6B4C U+66F2 by "artist" on "album"; a title that just fits one line of
\* 25; a title of one word of 60 characters, wrapped to three lines; a title
\* wrapped after the hyphen of a hyphenated word ("ab-cdefgh"), with no
\* artist, so that the text of line 142 begins with a blank; the same title
\* in Cyrillic letters
SongForms ==
    LET Rep(n, c) == [i \in 1..n |-> c]
    IN  { [name |-> <<27468, 26354>>,
           artist |-> <<97, 114, 116, 105, 115, 116>>,
           album |-> <<97, 108, 98, 117, 109>>],
          [name |-> Rep(12, 97) \o <<ORD_SP>> \o Rep(12, 98),
           artist |-> Rep(6, 99) \o <<ORD_SP>> \o Rep(6, 100),
           album |-> Rep(13, 101)],
          [name |-> Rep(60, 120),
           artist |-> <<97, 114, 116, 105, 115, 116>>,
           album |-> Rep(20, 97) \o <<ORD_SP>> \o Rep(20, 98)],
          [name |-> Rep(20, 120)
                    \o <<ORD_SP, 97, 98, ORD_HYPHEN, 99, 100, 101, 102, 103, 104, ORD_SP>>
                    \o Rep(18, 121),
           artist |-> <<>>,
           album |-> Rep(28, 98)],
          [name |-> Rep(20, 1093)
                    \o <<ORD_SP, 1072, 1073, ORD_HYPHEN, 1074, 1075, 1076, 1077, 1078, 1079,
                         ORD_SP>>
                    \o Rep(18, 1091),
           artist |-> <<>>,
           album |-> Rep(28, 1073)] }

\* TextWrapper.wrap for the texts of those songs at the widths of lines 131
\* and 143, worked out once
wrapped ==
    [args \in { <<form.name, Min(chars_per_line, 25)>> : form \in SongForms }
              \cup { <<artist_album_text(form), Min(chars_per_line + 5, 30)>> :
                         form \in SongForms } |->
        wrap_chunks(split_chunks(munge_whitespace(args[1], 0), 1), <<>>, <<>>, args[2], "line")]

\* textwrap.fill(text, width) as the list of its lines, which fill joins
\* with line breaks
wrap(text, width) ==
    IF <<text, width>> \in DOMAIN wrapped THEN wrapped[<<text, width>>]
    ELSE wrap_chunks(split_chunks(munge_whitespace(text, 0), 1), <<>>, <<>>, width, "line")

\* the rows of ink of one line of text of a font size: the full size for
\* tall glyphs (CJK, capitals with descenders), half of it for small ones
LineInk(size, tall) == IF tall THEN size ELSE size \div 2

\* ImageDraw.textbbox / ImageDraw.text of a text of that many lines: lines
\* are size + 4 apart (the default spacing of 4)
TextHeight(lines, size, tall) ==
    IF lines = 0 THEN 0 ELSE (lines - 1) * (size + 4) + LineInk(size, tall)

Item(kind, i, id, top, height) ==
    [kind |-> kind, rank |-> i, id |-> id, top |-> top, bottom |-> top + height]

\* lines 114-157: what one row draws at current_y
RowItems(i, song, current_y, item_height, tall) ==
    LET name_height ==
            TextHeight(Len(wrap(song.name, Min(chars_per_line, 25))), 22, tall)
        detail_height ==
            TextHeight(Len(wrap(artist_album_text(song), Min(chars_per_line + 5, 30))),
                       18, tall)
    IN  << Item("rectangle", i, song.id, current_y, item_height - 5),
           Item("rank", i, song.id, current_y + 8, LineInk(22, tall)),
           Item("name", i, song.id, current_y + 8, name_height),
           Item("artist_album", i, song.id, current_y + 8 + name_height + 5, detail_height),
           Item("id", i, song.id, current_y + 10, LineInk(18, tall)) >>

\* the loop stopping one row early: >= in place of > at line 111
RECURSIVE RowLoop_StopsAtEdge(_, _, _, _, _, _)
RowLoop_StopsAtEdge(drawn, songs, i, current_y, item_height, tall) ==
    IF i > Len(songs) THEN [drawn |-> drawn, stopped |-> FALSE]
    ELSE IF current_y + item_height >= img_height - margin
    THEN [drawn |-> drawn, stopped |-> TRUE]
    ELSE RowLoop_StopsAtEdge(drawn \o RowItems(i, songs[i], current_y, item_height, tall),
                             songs, i + 1, current_y + item_height, item_height, tall)

\* lines 110-159: the loop over songs[:max_results]; stopped tells that the
\* break of line 112 was taken
RECURSIVE RowLoop(_, _, _, _, _, _)
RowLoop(drawn, songs, i, current_y, item_height, tall) ==
    IF i > Len(songs) THEN [drawn |-> drawn, stopped |-> FALSE]
    ELSE IF current_y + item_height > img_height - margin
    THEN [drawn |-> drawn, stopped |-> TRUE]
    ELSE RowLoop(drawn \o RowItems(i, songs[i], current_y, item_height, tall),
                 songs, i + 1, current_y + item_height, item_height, tall)

NoImageCall ==
    [songs |-> <<>>, max_results |-> 1, url_ok |-> TRUE, fallback_ok |-> TRUE,
     font_ok |-> TRUE, tall |-> TRUE]

NoImageRet ==
    [status |-> "none", by |-> "none", width |-> 0, height |-> 0,
     background |-> [from |-> "none", color |-> <<>>, size |-> <<0, 0>>],
     font |-> "none", drawn |-> <<>>, stopped |-> FALSE, format |-> "none"]

\* lines 80-164 on a background, with the row height of line 71: fonts
\* (truetype, or load_default when truetype raises IOError), header (font
\* size 30 with a stroke of 2), rows, PNG as base64
Compose(by, background, c) ==
    LET song_item_height == (img_height - header_height - margin * 2) \div c.max_results
        header == Item("header", 0, 0, margin, LineInk(30, c.tall) + 2)
        rows == RowLoop(<<header>>, SubSeq(c.songs, 1, Min(Len(c.songs), c.max_results)),
                        1, header_height + margin, song_item_height, c.tall)
    IN  [status |-> "return", by |-> by,
         width |-> background.size[1], height |-> background.size[2],
         background |-> background, font |-> IF c.font_ok THEN "truetype" ELSE "default",
         drawn |-> rows.drawn, stopped |-> rows.stopped, format |-> "PNG base64"]

\* image_gen.py lines 47-164
generate_song_list_image(c) ==
    Compose("image_gen",
            download_image_as_pil(c.url_ok, c.fallback_ok, <<img_width, img_height>>), c)

\* __init__.py lines 209-312
init_generate_song_list_image(c) ==
    Compose("__init__",
            init_download_image_as_pil(c.url_ok, c.fallback_ok, <<img_width, img_height>>), c)

(***************************************************************************)
(* The variables of the parts a specification leaves alone                 *)
(***************************************************************************)
SearchIdle ==
    /\ search_result = [raises |-> FALSE, result |-> {}]
    /\ max_results = 1
    /\ search_ret = NoSearchRet

PluginIdle ==
    /\ pyncm_ready = FALSE
    /\ request = NoRequest
    /\ outcome = NoOutcome
    /\ sent = <<>>

ExtIdle ==
    /\ card_call = NoCardCall
    /\ card_ret = NoCardRet
    /\ image_call = NoImageCall
    /\ image_ret = NoImageRet

(***************************************************************************)
(* Harness for search_songs_from_ncm: answers with at most MaxRaw entries, *)
(* each one of RawEntries, and max_results in 1..MaxResults                *)
(***************************************************************************)
MaxRaw == 3
MaxResults == 2

\* type is the Python type of the entry and of its "al": a JSON object is a
\* dict, null is NoneType, a JSON string is str
ValidEntry ==
    [type |-> "dict", id |-> {7}, name |-> {"song"},
     ar |-> {<<[name |-> {"A"}], [name |-> {"B"}]>>},
     al |-> {[type |-> "dict", picUrl |-> {"pic"}, name |-> {"album"}]},
     dt |-> {5}]

\* an entry of the list that is not a JSON object
NonDict(type) == [type |-> type, id |-> {}, name |-> {}, ar |-> {}, al |-> {}, dt |-> {}]

\* the valid entry, another valid one, the valid entry with one field
\* absent, null, empty or out of range, and entries that are null or a string
RawEntries ==
    { ValidEntry,
      [ValidEntry EXCEPT !.id = {8}, !.name = {"other"}],
      [ValidEntry EXCEPT !.id = {}],
      [ValidEntry EXCEPT !.id = {0}],
      [ValidEntry EXCEPT !.id = {-1}],
      [ValidEntry EXCEPT !.name = {}],
      [ValidEntry EXCEPT !.ar = {}],
      [ValidEntry EXCEPT !.ar = {<<[name |-> {"A"}], [name |-> {}]>>}],
      [ValidEntry EXCEPT !.al = {}],
      [ValidEntry EXCEPT !.al = {[type |-> "dict", picUrl |-> {""}, name |-> {}]}],
      [ValidEntry EXCEPT !.al = {[NoAlbum EXCEPT !.type = "NoneType"]}],
      [ValidEntry EXCEPT !.dt = {}],
      NonDict("NoneType"),
      NonDict("str") }

SearchResponses ==
    { [raises |-> TRUE, result |-> {}],
      [raises |-> FALSE, result |-> {}],
      [raises |-> FALSE, result |-> {[songs |-> {}]}] }
    \cup { [raises |-> FALSE, result |-> {[songs |-> {songs}]}] :
              songs \in StringsUpTo(RawEntries, MaxRaw) }

SearchInit ==
    /\ search_result \in SearchResponses
    /\ max_results \in 1..MaxResults
    /\ search_ret = NoSearchRet
    /\ pc = "start"
    /\ cookie_string = <<>>
    /\ cookies = EmptyDict
    /\ chat_key = <<>>
    /\ chat_ret = NoChatRet
    /\ session_state = NoSession
    /\ current_session = DefaultSession
    /\ call = NoCall
    /\ PluginIdle
    /\ ExtIdle

SearchSongsFromNcm ==
    /\ pc = "start"
    /\ search_ret' = search_songs_from_ncm(search_result, max_results, DefaultCoverUrl)
    /\ pc' = "done"
    /\ UNCHANGED <<search_result, max_results, session_vars, cookie_vars, chat_vars,
                   plugin_vars, ext_vars>>

SearchNext == SearchSongsFromNcm

SpecSearch == SearchInit /\ [][SearchNext]_vars

(***************************************************************************)
(* The plugin: loaded with one of ConfigCookies and a MAX_SEARCH_RESULTS   *)
(* in 1..MaxResults, then called by the agent                              *)
(***************************************************************************)
ConfigCookies ==
    { <<>>,
      MUSIC_U \o <<EQ, "a">>,
      <<NBSP>> \o MUSIC_U \o <<EQ, "a", SEMI>> \o CSRF \o <<EQ, "b">> }

Keywords == { <<>>, <<NBSP>>, <<"k">> }

PluginResponses ==
    { [raises |-> TRUE, result |-> {}],
      [raises |-> FALSE, result |-> {}] }
    \cup { [raises |-> FALSE, result |-> {[songs |-> {songs}]}] :
              songs \in { <<>>,
                          <<ValidEntry>>,
                          <<[ValidEntry EXCEPT !.name = {}]>>,
                          <<ValidEntry, NonDict("NoneType")>>,
                          <<[ValidEntry EXCEPT !.id = {}], ValidEntry,
                            [ValidEntry EXCEPT !.id = {8}, !.name = {"other"}]>> } }

DetailResponses ==
    { [kind |-> k, songs |-> {}] : k \in {"raises ValueError", "raises", "falsy", "tuple", "dict"} }
    \cup { [kind |-> "dict", songs |-> {songs}] :
              songs \in { <<>>,
                          <<ValidEntry>>,
                          <<[ValidEntry EXCEPT !.ar = {}]>>,
                          <<[ValidEntry EXCEPT !.name = {}]>>,
                          <<[ValidEntry EXCEPT !.ar = {<<[name |-> {}]>>}]>> } }

\* lines 126 and 183: the configuration is read and the session initialized
PluginInit ==
    /\ \E ncm_cookie \in ConfigCookies :
          /\ pyncm_ready = init_pyncm_session(ncm_cookie)
          /\ current_session =
                IF InitCookies(ncm_cookie) = {} THEN DefaultSession
                ELSE NewSession(DefaultSession, The(InitCookies(ncm_cookie)))
    /\ max_results \in 1..MaxResults
    /\ request = NoRequest
    /\ outcome = NoOutcome
    /\ sent = <<>>
    /\ ExtIdle
    /\ session_state = NoSession
    /\ call = NoCall
    /\ pc = "idle"
    /\ cookie_string = <<>>
    /\ cookies = EmptyDict
    /\ chat_key = <<>>
    /\ chat_ret = NoChatRet
    /\ search_result = [raises |-> FALSE, result |-> {}]
    /\ search_ret = NoSearchRet

\* The sandbox methods and cleanup are coroutines on one event loop: a call
\* runs without interruption up to its await and from there to its end, and
\* cleanup can run while a call is suspended.  pc is where the call in
\* flight is suspended: "idle" (no call), "195 url" and "195 fallback_url"
\* (the two client.get of _download_image_as_pil), "427" (send_group_msg).
\* One call is in flight at a time: calls share nothing they write.

\* lines 318-372: search_songs is called and runs to its end or to the
\* first download
SearchSongs(keyword, response) ==
    /\ pc = "idle"
    /\ request' = [NoRequest EXCEPT !.op = "search", !.keyword = keyword,
                                    !.response = response]
    /\ outcome' = SearchUntilImage(pyncm_ready, keyword, response, max_results)
    /\ sent' = <<>>
    /\ pc' = IF outcome'.status = "await" THEN "195 url" ELSE "idle"
    /\ UNCHANGED <<pyncm_ready, max_results, current_session>>
    /\ UNCHANGED plugin_rest

\* lines 192-199, first turn of the loop: the download of background_url
\* answers; on a failure the loop goes on to the fallback
DownloadUrl(primary_ok) ==
    /\ pc = "195 url"
    /\ request' = [request EXCEPT !.primary_ok = primary_ok]
    /\ outcome' = IF primary_ok
                  THEN SearchAfterImage(outcome, BackgroundOf(TRUE, request.fallback_ok))
                  ELSE outcome
    /\ pc' = IF primary_ok THEN "idle" ELSE "195 fallback_url"
    /\ UNCHANGED <<pyncm_ready, max_results, current_session, sent>>
    /\ UNCHANGED plugin_rest

\* lines 192-206, second turn of the loop, and lines 372-393: the download
\* of default_cover_url answers and search_songs returns
DownloadFallbackUrl(fallback_ok) ==
    /\ pc = "195 fallback_url"
    /\ request' = [request EXCEPT !.fallback_ok = fallback_ok]
    /\ outcome' = SearchAfterImage(outcome, BackgroundOf(FALSE, fallback_ok))
    /\ pc' = "idle"
    /\ UNCHANGED <<pyncm_ready, max_results, current_session, sent>>
    /\ UNCHANGED plugin_rest

\* lines 396-430: play_song is called and runs to its end or to the send
PlaySong(detail, ctx_chat_key, bot) ==
    LET r == PlayUntilSend(detail, ctx_chat_key, bot) IN
    /\ pc = "idle"
    /\ request' = [NoRequest EXCEPT !.op = "play", !.detail = detail,
                                    !.ctx_chat_key = ctx_chat_key, !.bot = bot]
    /\ outcome' = r.outcome
    /\ sent' = r.sent
    /\ pc' = IF r.outcome.status = "await" THEN "427" ELSE "idle"
    /\ UNCHANGED <<pyncm_ready, max_results, current_session>>
    /\ UNCHANGED plugin_rest

\* lines 427-438: send_group_msg answers and play_song returns
SendGroupMsg(send) ==
    LET r == PlayAfterSend([outcome |-> outcome, sent |-> sent], send) IN
    /\ pc = "427"
    /\ request' = [request EXCEPT !.send = send]
    /\ outcome' = r.outcome
    /\ sent' = r.sent
    /\ pc' = "idle"
    /\ UNCHANGED <<pyncm_ready, max_results, current_session>>
    /\ UNCHANGED plugin_rest

\* lines 444-453: cleanup, between two calls or while one is suspended
PluginCleanup ==
    /\ cleanup(pyncm_ready, current_session).serial <= MaxSessions
    /\ current_session' = cleanup(pyncm_ready, current_session)
    /\ UNCHANGED <<pyncm_ready, max_results, request, outcome, sent, pc>>
    /\ UNCHANGED plugin_rest

PluginNext ==
    \/ \E keyword \in Keywords, response \in PluginResponses :
          SearchSongs(keyword, response)
    \/ \E primary_ok \in BOOLEAN : DownloadUrl(primary_ok)
    \/ \E fallback_ok \in BOOLEAN : DownloadFallbackUrl(fallback_ok)
    \/ \E detail \in DetailResponses, ctx_chat_key \in CtxChatKeys, bot \in CallOutcomes :
          PlaySong(detail, ctx_chat_key, bot)
    \/ \E send \in CallOutcomes : SendGroupMsg(send)
    \/ PluginCleanup

SpecPlugin == PluginInit /\ [][PluginNext]_vars

SessionInit ==
    /\ session_state = NoSession
    /\ current_session = DefaultSession
    /\ call = NoCall
    /\ pc = "start"
    /\ cookie_string = <<>>
    /\ cookies = EmptyDict
    /\ chat_key = <<>>
    /\ chat_ret = NoChatRet
    /\ SearchIdle
    /\ PluginIdle
    /\ ExtIdle

Ensure(c) ==
    LET r == ensure_session_initialized(session_state, current_session, c) IN
    /\ r.session.serial <= MaxSessions
    /\ session_state' = r.state
    /\ current_session' = r.session
    /\ call' = [op |-> "ensure", arg |-> c, err |-> r.err, keys |-> r.keys,
                validated |-> r.validated, applied |-> r.applied]
    /\ UNCHANGED <<pc, cookie_vars, chat_vars, search_vars, plugin_vars, ext_vars>>

Cleanup ==
    LET r == cleanup_pyncm_session(session_state, current_session) IN
    /\ r.session.serial <= MaxSessions
    /\ session_state' = r.state
    /\ current_session' = r.session
    /\ call' = [NoCall EXCEPT !.op = "cleanup"]
    /\ UNCHANGED <<pc, cookie_vars, chat_vars, search_vars, plugin_vars, ext_vars>>

SessionNext ==
    \/ \E c \in SessionCookies : Ensure(c)
    \/ Cleanup

SpecSession == SessionInit /\ [][SessionNext]_vars

(***************************************************************************)
(* Harness for parse_cookie_string: every string over CookieAlphabet of    *)
(* length at most MaxCookieLen                                             *)
(***************************************************************************)
MaxCookieLen == 5

CookieAlphabet == {"a", "b", EQ, SEMI, SP, NL, CR, NBSP}

CookieInit ==
    /\ cookie_string \in StringsUpTo(CookieAlphabet, MaxCookieLen)
    /\ cookies = EmptyDict
    /\ pc = "start"
    /\ session_state = NoSession
    /\ current_session = DefaultSession
    /\ call = NoCall
    /\ chat_key = <<>>
    /\ chat_ret = NoChatRet
    /\ SearchIdle
    /\ PluginIdle
    /\ ExtIdle

ParseCookie ==
    /\ pc = "start"
    /\ cookies' = parse_cookie_string(cookie_string)
    /\ pc' = "done"
    /\ UNCHANGED <<cookie_string, session_vars, chat_vars, search_vars, plugin_vars,
                   ext_vars>>

CookieNext == ParseCookie

SpecCookie == CookieInit /\ [][CookieNext]_vars

(***************************************************************************)
(* Harness for parse_chat_key: every concatenation of at most MaxTokens    *)
(* of ChatTokens                                                           *)
(***************************************************************************)
MaxTokens == 5

\* "7", the Arabic-Indic three (a decimal digit) and the superscript two
\* (a digit for str.isdigit, no decimal) are the id characters
ChatTokens ==
    { <<"x">>, <<HYPHEN>>, <<UNDERSCORE>>, GROUP, PRIVATE, <<"7">>, <<"U+0663">>, <<"²">> }

\* ids of int_max_str_digits digits and of one more, in two scripts, with a
\* leading zero, and followed by the superscript two; ids of 199 and of 200
\* characters that end with the superscript two
LongIds ==
    LET Rep(n, c) == [i \in 1..n |-> c] IN
    { Rep(int_max_str_digits, "7"),
      Rep(int_max_str_digits + 1, "7"),
      Rep(int_max_str_digits, "U+0663"),
      <<"0">> \o Rep(int_max_str_digits, "7"),
      <<"0">> \o Rep(int_max_str_digits - 1, "U+0663"),
      Rep(int_max_str_digits, "7") \o <<"²">>,
      Rep(int_max_str_digits + 1, "7") \o <<"²">>,
      Rep(198, "7") \o <<"²">>,
      Rep(199, "7") \o <<"²">> }

ChatKeys ==
    {Concat(ts) : ts \in StringsUpTo(ChatTokens, MaxTokens)}
        \cup { <<UNDERSCORE, HYPHEN>> \o GROUP \o <<UNDERSCORE>> \o id : id \in LongIds }

ChatInit ==
    /\ chat_key \in ChatKeys
    /\ chat_ret = NoChatRet
    /\ pc = "start"
    /\ cookie_string = <<>>
    /\ cookies = EmptyDict
    /\ session_state = NoSession
    /\ current_session = DefaultSession
    /\ call = NoCall
    /\ SearchIdle
    /\ PluginIdle
    /\ ExtIdle

ParseChatKey ==
    /\ pc = "start"
    /\ chat_ret' = parse_chat_key(chat_key)
    /\ pc' = "done"
    /\ UNCHANGED <<chat_key, session_vars, cookie_vars, search_vars, plugin_vars,
                   ext_vars>>

ChatNext == ParseChatKey

SpecChatKey == ChatInit /\ [][ChatNext]_vars

(***************************************************************************)
(* Harness for get_signed_netease_card: every combination of a transport   *)
(* outcome, an HTTP status and a response body                             *)
(***************************************************************************)
\* bodies that are no JSON, JSON that is no object, and objects with code
\* and message absent or of every JSON type
CardBodies ==
    LET V(type, num, den, text) == {[type |-> type, num |-> num, den |-> den, text |-> text]}
        PyInt(n) == V("int", n, 1, <<>>)
        PyFloat(n, d) == V("float", n, d, <<>>)
        PyBool(n) == V("bool", n, 1, <<>>)
        PyStr(t) == V("str", 0, 1, t)
        PyNone == V("NoneType", 0, 1, <<>>)
    IN  { [kind |-> k, code |-> {}, message |-> {}] : k \in {"undecodable", "array", "scalar"} }
        \cup { [kind |-> "object", code |-> c, message |-> m] :
                  c \in { {}, PyInt(1), PyInt(0), PyInt(2), PyInt(-1), PyFloat(1, 1), PyFloat(10, 10),
                          PyFloat(3, 2), PyBool(1), PyBool(0), PyStr(<<"1">>), PyNone },
                  m \in { {}, PyStr(<<>>), PyStr(<<"c", "a", "r", "d">>), V("dict", 0, 1, <<>>),
                          V("dict", 1, 1, <<>>), V("list", 0, 1, <<>>), PyInt(0), PyInt(5),
                          PyFloat(0, 1), PyFloat(1, 2), PyFloat(0, 0), PyBool(0), PyNone } }

CardCalls ==
    [transport_ok : BOOLEAN, status_code : {200, 201, 404, 500}, body : CardBodies,
     cover_url : {{}, {<<>>}, {<<"c">>}}]

CardInit ==
    /\ card_call \in CardCalls
    /\ card_ret = NoCardRet
    /\ pc = "start"
    /\ session_state = NoSession
    /\ current_session = DefaultSession
    /\ call = NoCall
    /\ cookie_string = <<>>
    /\ cookies = EmptyDict
    /\ chat_key = <<>>
    /\ chat_ret = NoChatRet
    /\ SearchIdle
    /\ PluginIdle
    /\ image_call = NoImageCall
    /\ image_ret = NoImageRet

\* lines 41-75: the call builds the form data and suspends at the await of
\* client.post
GetSignedNeteaseCard ==
    /\ pc = "start"
    /\ card_ret' = [CardReturn(card_call, {}) EXCEPT !.status = "await"]
    /\ pc' = "75"
    /\ UNCHANGED <<card_call, session_vars, cookie_vars, chat_vars, search_vars,
                   plugin_vars, image_vars>>

\* lines 75-87: the post answers or raises, and the call returns
ClientPost ==
    /\ pc = "75"
    /\ card_ret' = get_signed_netease_card(card_call)
    /\ pc' = "done"
    /\ UNCHANGED <<card_call, session_vars, cookie_vars, chat_vars, search_vars,
                   plugin_vars, image_vars>>

CardNext ==
    \/ GetSignedNeteaseCard
    \/ ClientPost

SpecCard == CardInit /\ [][CardNext]_vars

(***************************************************************************)
(* Harness for the compositor: lists of at most MaxSongs songs, every      *)
(* configurable max_results, and every outcome of the two downloads and of *)
(* the font load                                                           *)
(***************************************************************************)
MaxSongs == 21

\* __init__.py lines 103-109: MAX_SEARCH_RESULTS, ge=1, le=20
MaxSearchResults == 20

\* n songs of one form, with ids 7, 14, ...
SongLists ==
    { [k \in 1..n |-> [id |-> 7 * k, name |-> form.name, artist |-> form.artist,
                       album |-> form.album]] : n \in 0..MaxSongs, form \in SongForms }

ImageCalls ==
    [songs : SongLists, max_results : 1..MaxSearchResults,
     url_ok : BOOLEAN, fallback_ok : BOOLEAN, font_ok : BOOLEAN, tall : BOOLEAN]

ImageInit ==
    /\ image_call \in ImageCalls
    /\ image_ret = NoImageRet
    /\ pc = "start"
    /\ session_state = NoSession
    /\ current_session = DefaultSession
    /\ call = NoCall
    /\ cookie_string = <<>>
    /\ cookies = EmptyDict
    /\ chat_key = <<>>
    /\ chat_ret = NoChatRet
    /\ SearchIdle
    /\ PluginIdle
    /\ card_call = NoCardCall
    /\ card_ret = NoCardRet

\* image_gen.py lines 47-74 and 15-35: the call runs to the first
\* client.get of download_image_as_pil, where the coroutine is suspended
GenerateSongListImage ==
    /\ pc = "start"
    /\ image_ret' = [NoImageRet EXCEPT !.status = "await", !.by = "image_gen"]
    /\ pc' = "url"
    /\ UNCHANGED <<image_call, session_vars, cookie_vars, chat_vars, search_vars,
                   plugin_vars, card_vars>>

\* __init__.py lines 209-223 and 188-197, the same
InitGenerateSongListImage ==
    /\ pc = "start"
    /\ image_ret' = [NoImageRet EXCEPT !.status = "await", !.by = "__init__"]
    /\ pc' = "url"
    /\ UNCHANGED <<image_call, session_vars, cookie_vars, chat_vars, search_vars,
                   plugin_vars, card_vars>>

\* the answer to the request for url (image_gen.py line 35, __init__.py
\* line 197): an image, on which the rest of the function draws up to its
\* return, or a failure, after which fallback_url is requested
ImageClientGet ==
    /\ pc = "url"
    /\ IF image_call.url_ok
       THEN /\ image_ret' = IF image_ret.by = "image_gen"
                            THEN generate_song_list_image(image_call)
                            ELSE init_generate_song_list_image(image_call)
            /\ pc' = "done"
       ELSE pc' = "fallback_url" /\ UNCHANGED image_ret
    /\ UNCHANGED <<image_call, session_vars, cookie_vars, chat_vars, search_vars,
                   plugin_vars, card_vars>>

\* the answer to the request for fallback_url: the rest of the function
\* draws on that image, or on the gray canvas when this request fails too
ImageClientGetFallback ==
    /\ pc = "fallback_url"
    /\ image_ret' = IF image_ret.by = "image_gen"
                     THEN generate_song_list_image(image_call)
                     ELSE init_generate_song_list_image(image_call)
    /\ pc' = "done"
    /\ UNCHANGED <<image_call, session_vars, cookie_vars, chat_vars, search_vars,
                   plugin_vars, card_vars>>

ImageNext ==
    \/ GenerateSongListImage
    \/ InitGenerateSongListImage
    \/ ImageClientGet
    \/ ImageClientGetFallback

SpecImage == ImageInit /\ [][ImageNext]_vars

(***************************************************************************)
(* What the cookie parser is specified to return, stated over positions of *)
(* the input rather than by the parser's loop                              *)
(***************************************************************************)
IsSeparator(c) == c \in {SEMI, NL}

\* the maximal separator-free stretches <<i, j>> of s (i = j + 1: empty stretch)
SegmentRanges(s) ==
    {r \in (1..Len(s) + 1) \X (0..Len(s)) :
        /\ r[1] <= r[2] + 1
        /\ \A q \in r[1]..r[2] : ~IsSeparator(s[q])
        /\ r[1] = 1 \/ IsSeparator(s[r[1] - 1])
        /\ r[2] = Len(s) \/ IsSeparator(s[r[2] + 1])}

\* t without its leading and trailing whitespace
Trimmed(t) ==
    LET solid == {q \in 1..Len(t) : ~IsSpace(t[q])} IN
    IF solid = {} THEN <<>>
    ELSE SubSeq(t, CHOOSE q \in solid : \A o \in solid : q <= o,
                   CHOOSE q \in solid : \A o \in solid : q >= o)

\* one item per segment that has an '=': where it starts, and its two sides
\* around the first '=', trimmed
WellFormedItems(s) ==
    {[at |-> r[1],
      key |-> Trimmed(SubSeq(s, r[1], (CHOOSE p \in r[1]..r[2] :
                  s[p] = EQ /\ \A q \in r[1]..(p - 1) : s[q] # EQ) - 1)),
      value |-> Trimmed(SubSeq(s, (CHOOSE p \in r[1]..r[2] :
                  s[p] = EQ /\ \A q \in r[1]..(p - 1) : s[q] # EQ) + 1, r[2]))]
        : r \in {x \in SegmentRanges(s) : \E p \in x[1]..x[2] : s[p] = EQ}}

WellFormedPairs(s) == {<<it.key, it.value>> : it \in WellFormedItems(s)}

\* of the items with the same key, the one furthest right
LastPairs(s) ==
    LET items == WellFormedItems(s) IN
    {<<it.key, it.value>> : it \in
        {x \in items : \A y \in items : y.key = x.key => y.at <= x.at}}

WithoutCR(s) == LET keep(c) == c # CR IN SelectSeq(s, keep)

DictPairs(d) == {<<k, d[k]>> : k \in DOMAIN d}

\* C4 as stated: the mapping holds exactly the well-formed pairs of the input
C4_ExactlyWellFormedPairs ==
    pc = "done" => DictPairs(cookies) = WellFormedPairs(cookie_string)

\* C4 (amended): parse_cookie_string never fails; with carriage returns deleted
\* from the input, the mapping holds for every key of a well-formed segment
\* (split at the first '=', both sides trimmed) the value of the last such
\* segment with that key, and nothing else; blank input gives the empty mapping
C4_ParsedPairs ==
    pc = "done" =>
        /\ DictPairs(cookies) = LastPairs(WithoutCR(cookie_string))
        /\ IsBlank(cookie_string) => cookies = EmptyDict

\* a pair was parsed from input that has a newline separator and a segment
\* without '=' which was dropped
C4_Witness ==
    /\ pc = "done"
    /\ DOMAIN cookies # {}
    /\ Contains(cookie_string, NL)
    /\ \E r \in SegmentRanges(cookie_string) :
          /\ r[1] <= r[2]
          /\ \A q \in r[1]..r[2] : cookie_string[q] \notin {EQ, SP}

(***************************************************************************)
(* Session claims                                                          *)
(***************************************************************************)
\* the required keys that no well-formed segment of c carries
AbsentRequired(c) ==
    {required_keys[i] : i \in {j \in 1..Len(required_keys) :
        \A pr \in LastPairs(WithoutCR(c)) : pr[1] # required_keys[j]}}

\* AbsentRequired(c) for the offered strings, computed once
AbsentOf == [c \in SessionCookies |-> AbsentRequired(c)]

\* the pairs the session is to hold for each offered string, computed once
PairsOf == [c \in SessionCookies |-> LastPairs(WithoutCR(c))]

SeqToSet(q) == {q[i] : i \in 1..Len(q)}

\* C1: a second ensure_session_initialized with the same string, right after
\* one with a string that has both required keys, returns no error, neither
\* validates nor applies and leaves the session state and the current session
\* as they were; an ensure with a string other than the one last applied is
\* never skipped: it validates, and applies the new string when it is valid
C1_InitIdempotent ==
    [][call'.op = "ensure" =>
        /\ (call.op = "ensure" /\ call.arg = call'.arg /\ ~IsBlank(call.arg)
               /\ AbsentOf[call.arg] = {})
            => /\ call'.err = "none"
               /\ ~call'.validated /\ ~call'.applied
               /\ UNCHANGED <<session_state, current_session>>
        /\ (session_state.initialized /\ session_state.last_cookie # {call'.arg}
               /\ ~IsBlank(call'.arg))
            => /\ call'.validated
               /\ AbsentOf[call'.arg] = {} =>
                     /\ call'.applied /\ call'.err = "none"
                     /\ session_state' = [initialized |-> TRUE, last_cookie |-> {call'.arg}]
                     /\ current_session'.serial = current_session.serial + 1
                     /\ DictPairs(current_session'.cookies) = PairsOf[call'.arg]
      ]_vars

\* the second of two calls with the same valid string took the skip path
C1_Witness ==
    /\ call.op = "ensure" /\ call.err = "none"
    /\ ~call.validated /\ ~call.applied
    /\ session_state = [initialized |-> TRUE, last_cookie |-> {call.arg}]
    /\ DictPairs(current_session.cookies) = PairsOf[call.arg]

\* C2 as stated: after cleanup_pyncm_session nothing of the credential is left
C2_ClearedOnTeardown ==
    call.op = "cleanup" =>
        /\ ~session_state.initialized
        /\ session_state.last_cookie = {}
        /\ current_session.cookies = EmptyDict

\* C3 as stated: whenever required keys are absent from the string, the error
\* lists exactly the absent keys
C3_MissingKeysNamed ==
    (call.op = "ensure" /\ AbsentOf[call.arg] # {}) =>
        /\ call.err = "missing_keys"
        /\ SeqToSet(call.keys) = AbsentOf[call.arg]

\* C3 (amended): for a non-blank string that lacks required keys the readiness
\* check fails, whatever the prior state, with the missing-keys error listing
\* exactly the absent required keys; for an empty or whitespace-only string it
\* fails with the not-configured error, which lists no key; either way the
\* state is left not initialized
C3_ConfigurationError ==
    (call.op = "ensure" /\ AbsentOf[call.arg] # {}) =>
        /\ ~session_state.initialized
        /\ IF IsBlank(call.arg)
           THEN call.err = "not_configured" /\ call.keys = <<>>
           ELSE /\ call.err = "missing_keys"
                /\ SeqToSet(call.keys) = AbsentOf[call.arg]
                /\ Len(call.keys) = Cardinality(AbsentOf[call.arg])

\* a string that has other keys but lacks exactly __csrf was refused
C3_Witness ==
    /\ call.op = "ensure"
    /\ call.err = "missing_keys"
    /\ call.keys = <<CSRF>>
    /\ session_state.last_cookie # {}

(***************************************************************************)
(* Chat-key claims                                                         *)
(***************************************************************************)
Count(s, c) == Cardinality({i \in 1..Len(s) : s[i] = c})

\* the first position of k after position p that holds c
FirstAfter(k, p, c) ==
    LET At == { i \in (p + 1)..Len(k) : k[i] = c } IN
    CHOOSE i \in At : \A j \in At : i <= j

\* what follows the first '_' after the first '-'
IdText(k) ==
    SubSeq(k, FirstAfter(k, FirstAfter(k, 0, HYPHEN), UNDERSCORE) + 1, Len(k))

\* how many decimal digits t starts with
DecimalRun(t) ==
    LET Stops == { i \in 1..Len(t) : ~IsDecimal(t[i]) } IN
    IF Stops = {} THEN Len(t) ELSE (CHOOSE i \in Stops : \A j \in Stops : i <= j) - 1

\* k is <transport>-<kind>_<id>: one '-', one '_' after it, kind group or
\* private, id a non-empty run of decimal digits
ChatKeyShape(k) ==
    /\ Count(k, HYPHEN) = 1
    /\ \E h \in 1..Len(k) :
          /\ k[h] = HYPHEN
          /\ \E u \in (h + 1)..Len(k) :
                /\ k[u] = UNDERSCORE
                /\ \A q \in (h + 1)..Len(k) : k[q] = UNDERSCORE => q = u
                /\ SubSeq(k, h + 1, u - 1) \in {GROUP, PRIVATE}
                /\ u < Len(k)
                /\ \A q \in (u + 1)..Len(k) : IsDecimal(k[q])

\* the same with an id of at most int_max_str_digits digits
ChatKeyForm(k) == ChatKeyShape(k) /\ Len(IdText(k)) <= int_max_str_digits

\* the kind of a key of that form
ChatKeyKind(k) ==
    CHOOSE t \in {GROUP, PRIVATE} : \E h \in 1..Len(k) :
        k[h] = HYPHEN /\ SubSeq(k, h + 1, h + Len(t)) = t

\* value is the number that the decimal digits of text write: text is zeros
\* followed by the digits of value, each character by its digit value
IsValueOf(value, text) ==
    LET zeros == Len(text) - Len(value.digits) IN
    /\ ~value.neg
    /\ value.digits # <<>>
    /\ value.digits[1] = 0 => Len(value.digits) = 1
    /\ zeros >= 0
    /\ \A i \in 1..zeros : DecimalValue[text[i]] = 0
    /\ \A i \in 1..Len(value.digits) : DecimalValue[text[zeros + i]] = value.digits[i]

\* C8 as stated: exactly the keys of the form parse, and every failure names
\* the input it was given
C8_ParseOrNameInput ==
    pc = "done" =>
        /\ chat_ret.ok <=> ChatKeyShape(chat_key)
        /\ ~chat_ret.ok => chat_ret.named = chat_key

\* C8 (amended): parse_chat_key returns (kind, id) exactly for the keys of the
\* form <transport>-<kind>_<id> (one '-', one '_' after it, kind group or
\* private, id a non-empty run of at most int_max_str_digits decimal digits),
\* the id as the number its digits write; every other key fails with a
\* ValueError, which names the whole key when a separator is missing, only
\* the kind when the kind is unsupported, only the id text when the id is not
\* all digits, the first 199 characters of the id text when the id holds a
\* digit that is not decimal after at most int_max_str_digits decimal digits
\* (the invalid-literal error of int() itself), and nothing when the key is
\* empty or when the id is all digits and starts with more than
\* int_max_str_digits decimal digits (the digit-limit error of int() itself)
C8_ParseChatKey ==
    pc = "done" =>
        /\ chat_ret.ok <=> ChatKeyForm(chat_key)
        /\ chat_ret.ok =>
              /\ chat_ret.chat_type = ChatKeyKind(chat_key)
              /\ IsValueOf(chat_ret.target_id, IdText(chat_key))
              /\ chat_ret.err = "none"
        /\ ~chat_ret.ok =>
              /\ chat_ret.err \in {"empty", "no_hyphen", "no_underscore",
                                   "chat_type", "target_id", "int", "int_limit"}
              /\ chat_ret.err = "empty" <=> chat_key = <<>>
              /\ chat_ret.err = "empty" => chat_ret.named = <<>>
              /\ chat_ret.err \in {"no_hyphen", "no_underscore"}
                    => chat_ret.named = chat_key
              /\ chat_ret.err = "chat_type" =>
                    /\ chat_ret.named \notin {GROUP, PRIVATE}
                    /\ \E h \in 1..Len(chat_key) :
                          /\ chat_key[h] = HYPHEN
                          /\ h + Len(chat_ret.named) + 1 <= Len(chat_key)
                          /\ SubSeq(chat_key, h + 1, h + Len(chat_ret.named) + 1)
                                = chat_ret.named \o <<UNDERSCORE>>
              /\ chat_ret.err = "target_id" =>
                    /\ ~IsDigitStr(chat_ret.named)
                    /\ chat_ret.named = IdText(chat_key)
              /\ chat_ret.err = "int" =>
                    /\ IsDigitStr(IdText(chat_key))
                    /\ DecimalRun(IdText(chat_key)) < Len(IdText(chat_key))
                    /\ DecimalRun(IdText(chat_key)) <= int_max_str_digits
                    /\ chat_ret.named =
                          SubSeq(IdText(chat_key), 1,
                                 IF Len(IdText(chat_key)) < 199 THEN Len(IdText(chat_key))
                                 ELSE 199)
              /\ chat_ret.err = "int_limit" =>
                    /\ IsDigitStr(IdText(chat_key))
                    /\ DecimalRun(IdText(chat_key)) > int_max_str_digits
                    /\ chat_ret.named = <<>>

\* a group key was parsed whose id has int_max_str_digits digits, the most
\* that int() converts, and whose transport is an underscore
C8_Witness ==
    /\ pc = "done"
    /\ chat_ret.ok
    /\ chat_ret.chat_type = GROUP
    /\ chat_key[1] = UNDERSCORE
    /\ Len(chat_ret.target_id.digits) = int_max_str_digits

(***************************************************************************)
(* Search claims                                                           *)
(***************************************************************************)
\* the raw entries of the answer; none when the answer has no list
RawSongs == 
    IF search_result.result # {} /\ (CHOOSE r \in search_result.result : TRUE).songs # {}
    THEN CHOOSE l \in (CHOOSE r \in search_result.result : TRUE).songs : TRUE
    ELSE <<>>

\* positions of the entries considered: the first max_results
Considered == {i \in 1..Len(RawSongs) : i <= max_results}

\* an entry can be mapped when it is an object with an id and a name, its
\* album, if listed, is an object, and every artist listed for it has a name
Mappable(e) ==
    /\ e.type = "dict"
    /\ \A al \in e.al : al.type = "dict"
    /\ e.id # {}
    /\ e.name # {}
    /\ \A l \in e.ar : \A i \in 1..Len(l) : l[i].name # {}

MappableConsidered == {i \in Considered : Mappable(RawSongs[i])}

\* the position of the k-th mappable entry among those considered
KthMappable(k) ==
    CHOOSE i \in MappableConsidered :
        Cardinality({j \in MappableConsidered : j <= i}) = k

\* C5: search_songs_from_ncm never returns more than max_results records,
\* and the records returned are those of the mappable entries among the first
\* max_results raw entries, in their original order
C5_TruncatesToMaxResults ==
    (pc = "done" /\ search_ret.status = "return") =>
        /\ Len(search_ret.songs) <= max_results
        /\ Len(search_ret.songs) = Cardinality(MappableConsidered)
        /\ \A k \in 1..Len(search_ret.songs) :
              /\ {search_ret.songs[k].id} = RawSongs[KthMappable(k)].id
              /\ {search_ret.songs[k].name} = RawSongs[KthMappable(k)].name

\* more raw entries than max_results came back, all of the first max_results
\* were mapped, and a mappable entry beyond them was left out
C5_Witness ==
    /\ pc = "done" /\ search_ret.status = "return"
    /\ Len(RawSongs) > max_results
    /\ Len(search_ret.songs) = max_results
    /\ max_results > 1
    /\ \E i \in 1..Len(RawSongs) : i > max_results /\ Mappable(RawSongs[i])

\* C6 as stated: when the external call answered, the search raises exactly
\* when the raw result set is empty or none of the entries considered can be
\* mapped, what it raises then is the not-found ValueError, and it never
\* returns an empty list; an entry that cannot be mapped is skipped and the
\* others are still returned
C6_NotFoundNotEmptySuccess ==
    (pc = "done" /\ ~search_result.raises) =>
        /\ search_ret.status \in {"return", "raise"}
        /\ search_ret.status = "raise" <=> MappableConsidered = {}
        /\ search_ret.status = "raise" =>
              search_ret.exc = IF RawSongs = <<>> THEN "ValueError: not found"
                               ELSE "ValueError: not parsed"
        /\ search_ret.status = "return" =>
              /\ search_ret.songs # <<>>
              /\ Len(search_ret.songs) = Cardinality(MappableConsidered)

\* C7 as stated: every record returned has a positive id and a name, entries
\* without id or name are dropped, and absent artist, album, duration and
\* cover are filled by defaults
C7_PositiveIdAndName ==
    (pc = "done" /\ search_ret.status = "return") =>
        /\ \A k \in 1..Len(search_ret.songs) :
              /\ search_ret.songs[k].id > 0
              /\ search_ret.songs[k].name # ""
        /\ Len(search_ret.songs) <= Cardinality(MappableConsidered)
        /\ \A k \in 1..Len(search_ret.songs) :
              LET e == RawSongs[KthMappable(k)]
                  r == search_ret.songs[k]
              IN  /\ e.ar = {} => r.artist = <<>>
                  /\ e.al = {} => r.album = UnknownAlbum /\ r.cover_url = <<DefaultCoverUrl>>
                  /\ e.dt = {} => r.duration = 0

(***************************************************************************)
(* Plugin claims                                                           *)
(***************************************************************************)
\* C9 as stated: whatever fails (cookie configuration, catalog search, track
\* detail, image download, message send), a searchSongs or playSong call with
\* a usable keyword ends by returning a message, never by raising
C9_NoOperationFatal ==
    (outcome.op \in {"search", "play"} /\ (outcome.op = "search" => ~IsBlank(request.keyword)))
        => outcome.status \in {"return", "await"}

\* C10 as stated: a play request whose rich message was not delivered goes
\* on to send the plain text and then the voice message
C10_FallbackLadder ==
    (outcome.op = "play" /\ outcome.status = "return"
        /\ \E i \in 1..Len(sent) : sent[i].kind = "music" /\ sent[i].result # "ok")
        => \E i \in 1..Len(sent), j \in 1..Len(sent) :
              i < j /\ sent[i].kind = "text" /\ sent[j].kind = "voice"

(***************************************************************************)
(* C11                                                                     *)
(***************************************************************************)
\* the success response of the card API: status 200 and an object body with
\* code equal to 1 and a message that is neither missing, null, false, zero
\* nor empty
CardSuccess(c) ==
    /\ c.transport_ok
    /\ c.status_code = 200
    /\ c.body.kind = "object"
    /\ \E x \in c.body.code :
          \/ x.type = "int" /\ x.num = 1
          \/ x.type = "float" /\ <<x.num, x.den>> \in {<<1, 1>>, <<10, 10>>}
          \/ x.type = "bool" /\ x.num = 1
    /\ \E x \in c.body.message :
          /\ x.type # "NoneType"
          /\ x.type = "str" => Len(x.text) > 0
          /\ x.type \in {"list", "dict", "int", "bool"} => x.num # 0
          /\ x.type = "float" => x.num # 0 \/ x.den = 0

\* C11: get_signed_netease_card never raises; it returns the response's
\* message exactly when the HTTP status is 200 and the body carries
\* code == 1 and a non-empty message, and returns no payload for any other
\* code, an empty message, a non-200 status, an undecodable body or a
\* transport error
C11_CardSigning ==
    pc = "done" /\ card_ret.status # "none" =>
        /\ card_ret.status = "return"
        /\ CardSuccess(card_call) => card_ret.payload = card_call.body.message
        /\ ~CardSuccess(card_call) => card_ret.payload = {}

\* a call answered 200 with code 1 and the message "card" returned that message
C11_Witness ==
    /\ pc = "done"
    /\ card_call.transport_ok /\ card_call.status_code = 200
    /\ card_call.body.code = {[type |-> "int", num |-> 1, den |-> 1, text |-> <<>>]}
    /\ card_ret.payload = {[type |-> "str", num |-> 0, den |-> 1, text |-> <<"c", "a", "r", "d">>]}

(***************************************************************************)
(* C12, C13, C15                                                           *)
(***************************************************************************)
ImageDone == pc = "done" /\ image_ret.status # "none"

\* C12: the canvas is always exactly 800x800; given max_results = 15 and
\* exactly 15 songs, nothing drawn by the row loop (rectangle, rank, wrapped
\* title, artist/album line, id) extends past img_height - margin = 770;
\* given 0 songs only the header is drawn and an encoded image is returned
C12_CompositorBounds ==
    ImageDone =>
        /\ image_ret.width = 800 /\ image_ret.height = 800
        /\ image_call.max_results = 15 /\ Len(image_call.songs) = 15 =>
              \A k \in 1..Len(image_ret.drawn) :
                  image_ret.drawn[k].kind # "header" => image_ret.drawn[k].bottom <= 770
        /\ image_call.songs = <<>> =>
              /\ image_ret.status = "return" /\ image_ret.format = "PNG base64"
              /\ Len(image_ret.drawn) = 1 /\ image_ret.drawn[1].kind = "header"

\* C13 as stated: when both downloads fail the returned image is a uniform
\* (200,200,200) canvas: a gray background with nothing drawn on it
C13_UniformGray ==
    ImageDone /\ ~image_call.url_ok /\ ~image_call.fallback_ok =>
        /\ image_ret.status = "return"
        /\ image_ret.background.from = "solid"
        /\ SubSeq(image_ret.background.color, 1, 3) = <<200, 200, 200>>
        /\ image_ret.drawn = <<>>

\* C13: when both downloads fail the compositor returns, without raising,
\* an 800x800 image whose background is the uniform (200,200,200) canvas,
\* with the header and the rows drawn on it as on any other background;
\* when one of the downloads works the background is the downloaded one
C13_GrayBackground ==
    ImageDone =>
        /\ image_ret.status = "return"
        /\ image_ret.background.size = <<800, 800>>
        /\ ~image_call.url_ok /\ ~image_call.fallback_ok =>
              /\ image_ret.background.from = "solid"
              /\ image_ret.background.color = <<200, 200, 200, 255>>
              /\ image_ret.drawn # <<>> /\ image_ret.drawn[1].kind = "header"
              /\ image_ret.drawn =
                    generate_song_list_image([image_call EXCEPT !.url_ok = TRUE]).drawn
        /\ image_call.url_ok \/ image_call.fallback_ok =>
              image_ret.background.from # "solid"

\* both downloads failed and the list was drawn on the gray canvas
C13_Witness ==
    /\ ImageDone
    /\ ~image_call.url_ok /\ ~image_call.fallback_ok
    /\ image_ret.background.color = <<200, 200, 200, 255>>
    /\ Len(image_call.songs) = 2
    /\ Len(image_ret.drawn) = 11

Rectangles == { k \in 1..Len(image_ret.drawn) : image_ret.drawn[k].kind = "rectangle" }

\* C15: for every max_results in 1..20 and every song list, with the row
\* height floor(660 / max_results) and the cursor starting at 110, the guard
\* of the loop never fires: exactly min(len(songs), max_results) rows are
\* drawn, ranked 1..k in input order, each rectangle within rows 110..770
C15_GuardNeverFires ==
    ImageDone /\ image_call.max_results \in 1..20 =>
        LET k == Min(Len(image_call.songs), image_call.max_results)
            h == 660 \div image_call.max_results
        IN  /\ ~image_ret.stopped
            /\ Len(image_ret.drawn) = 1 + 5 * k
            /\ \A r \in 1..k :
                  LET rect == image_ret.drawn[1 + 5 * (r - 1) + 1] IN
                  /\ rect.kind = "rectangle"
                  /\ rect.rank = r
                  /\ rect.id = image_call.songs[r].id
                  /\ rect.top = 110 + (r - 1) * h
                  /\ 110 <= rect.top /\ rect.top <= rect.bottom /\ rect.bottom <= 770
                  /\ \A j \in 2..5 :
                        /\ image_ret.drawn[1 + 5 * (r - 1) + j].rank = r
                        /\ image_ret.drawn[1 + 5 * (r - 1) + j].id = image_call.songs[r].id
            /\ Cardinality(Rectangles) = k

\* twenty rows of height 33 were drawn out of a longer list, the last one
\* ending at 769
C15_Witness ==
    /\ ImageDone
    /\ image_call.max_results = 20
    /\ Len(image_call.songs) = 21
    /\ Cardinality(Rectangles) = 20
    /\ image_ret.drawn[Len(image_ret.drawn) - 4].top = 737

(***************************************************************************)
(* C14                                                                     *)
(***************************************************************************)
\* the shared state holds one whole credential: last_cookie is a string
\* with both required keys and the current session holds its parsed pairs
WholeCredential ==
    \E c \in SessionCookies :
        /\ session_state.last_cookie = {c}
        /\ missing_keys(ParsedCookie[c]) = <<>>
        /\ current_session.cookies = ParsedCookie[c]

\* C14: ensure_session_initialized and cleanup_pyncm_session are synchronous
\* functions with no suspension point, so on the one event loop requests
\* interleave as whole calls, in any order and with any cookie strings.  In
\* every reachable state where initialized is true, last_cookie is a string
\* containing both required keys and the current session holds exactly the
\* parsed pairs of last_cookie
C14_NoTornCredential == session_state.initialized => WholeCredential

\* a second credential has replaced a first one
C14_Witness ==
    /\ call.op = "ensure"
    /\ call.applied
    /\ current_session.serial = 2
    /\ session_state.initialized
    /\ WholeCredential

====
